---- MODULE Spec2Model ----
(***************************************************************************)
(* Terminology Resolution Engine of namaste-icd11-service:                 *)
(* app/services/terminology.py (TerminologyService), app/utils/mapping.py, *)
(* app/data/csv_parser.py and app/services/who_icd_api.py.                 *)
(*                                                                         *)
(* Conventions.  A Python str is a tuple of one-character strings, so      *)
(* <<"t","b">> is "tb"; a Python dict is a TLA+ record, a missing key a    *)
(* field outside its DOMAIN.  A Python float is an IEEE 754 binary64 value *)
(* <<sign, m, e>> = sign * m * 2^e with m odd, an infinity or NaN, and its *)
(* arithmetic rounds to nearest, ties to even.                             *)
(* datetime.now() stamps (effective_date, last_updated) are left out.      *)
(***************************************************************************)
EXTENDS Integers, Sequences, FiniteSets, TLC

VARIABLES
  who_api,          \* self.who_api: TRUE when a WHOICDAPI client was built
  versions,         \* self.versions
  namaste_data,     \* self.namaste_data
  icd11_tm2_data,   \* self.icd11_tm2_data
  icd11_bio_data,   \* self.icd11_bio_data
  namaste_by_code,  \* the six lookup dicts of _rebuild_indexes
  namaste_by_id,
  tm2_by_code,
  tm2_by_id,
  bio_by_code,
  bio_by_id,
  search_index,     \* self.search_index
  ret,              \* the call being answered and its return value
  tasks,            \* the requests in flight on the event loop of the application
  redis_client,     \* SearchService.redis_client and the keys its database holds
  cached_from       \* for each cached key, the request and the number of versions
                    \* its value was computed from (a history variable)

vars == <<who_api, versions, namaste_data, icd11_tm2_data, icd11_bio_data,
          namaste_by_code, namaste_by_id, tm2_by_code, tm2_by_id,
          bio_by_code, bio_by_id, search_index, ret, tasks, redis_client,
          cached_from>>

store == <<who_api, versions, namaste_data, icd11_tm2_data, icd11_bio_data,
           namaste_by_code, namaste_by_id, tm2_by_code, tm2_by_id,
           bio_by_code, bio_by_id, search_index>>

-----------------------------------------------------------------------------
(* Bounds of the model.                                                    *)

\* imports and syncs are explored until the version list has this length
MaxVersions == 3

\* searches are explored until the version list has this length
MaxSearchVersions == 2

\* search limits are drawn from 1..MaxLimit
MaxLimit == 2

\* requests in flight at one time on the event loop
MaxTasks == 2

\* requests are served until the version list, with the imports and syncs in
\* flight counted in, has this length
MaxLoopVersions == 3

\* cached searches are explored until the version list has this length
MaxCacheVersions == 2

-----------------------------------------------------------------------------
(* Static tables of the source.                                            *)

\* SYNONYM_MAP in dict order: each entry is <<key, synonyms>>.
SYNONYM_MAP ==
  << <<<<"f","e","v","e","r">>, \* fever
       <<<<"j","w","a","r","a">>, \* jwara
         <<"j","v","a","r">>, \* jvar
         <<"p","y","r","e","x","i","a">>, \* pyrexia
         <<"t","e","m","p","e","r","a","t","u","r","e">>>>>>, \* temperature
     <<<<"d","i","a","r","r","h","e","a">>, \* diarrhea
       <<<<"a","t","i","s","a","r","a">>, \* atisara
         <<"l","o","o","s","e"," ","m","o","t","i","o","n","s">>, \* loose motions
         <<"d","y","s","e","n","t","e","r","y">>>>>>, \* dysentery
     <<<<"a","n","e","m","i","a">>, \* anemia
       <<<<"p","a","n","d","u">>, \* pandu
         <<"r","a","k","t","a","l","p","a","t","a">>, \* raktalpata
         <<"p","a","l","l","o","r">>>>>>, \* pallor
     <<<<"d","i","a","b","e","t","e","s">>, \* diabetes
       <<<<"m","a","d","h","u","m","e","h","a">>, \* madhumeha
         <<"s","u","g","a","r"," ","d","i","s","e","a","s","e">>, \* sugar disease
         <<"p","r","a","m","e","h","a">>>>>>, \* prameha
     <<<<"a","r","t","h","r","i","t","i","s">>, \* arthritis
       <<<<"a","m","a","v","a","t","a">>, \* amavata
         <<"s","a","n","d","h","i","v","a","t","a">>, \* sandhivata
         <<"j","o","i","n","t"," ","i","n","f","l","a","m","m","a","t","i","o","n">>>>>>, \* joint inflammation
     <<<<"t","b">>, \* tb
       <<<<"r","a","j","a","y","a","k","s","h","m","a">>, \* rajayakshma
         <<"t","u","b","e","r","c","u","l","o","s","i","s">>, \* tuberculosis
         <<"k","s","h","a","y","a"," ","r","o","g","a">>>>>>, \* kshaya roga
     <<<<"a","s","t","h","m","a">>, \* asthma
       <<<<"s","h","w","a","s","a">>, \* shwasa
         <<"b","r","e","a","t","h","i","n","g"," ","d","i","f","f","i","c","u","l","t","y">>, \* breathing difficulty
         <<"d","y","s","p","n","e","a">>>>>>, \* dyspnea
     <<<<"p","i","l","e","s">>, \* piles
       <<<<"a","r","s","h","a">>, \* arsha
         <<"h","e","m","o","r","r","h","o","i","d","s">>, \* hemorrhoids
         <<"b","a","w","a","s","e","e","r">>>>>>, \* bawaseer
     <<<<"s","k","i","n"," ","d","i","s","e","a","s","e">>, \* skin disease
       <<<<"k","u","s","h","t","h","a">>, \* kushtha
         <<"d","e","r","m","a","t","i","t","i","s">>, \* dermatitis
         <<"t","w","a","k"," ","r","o","g","a">>>>>>, \* twak roga
     <<<<"m","e","n","t","a","l"," ","d","i","s","o","r","d","e","r">>, \* mental disorder
       <<<<"u","n","m","a","d","a">>, \* unmada
         <<"p","s","y","c","h","o","s","i","s">>, \* psychosis
         <<"m","a","n","a"," ","v","i","k","a","r","a">>>>>> >> \* mana vikara

\* abbreviation_map in dict order: each entry is <<abbreviation, full form>>.
abbreviation_map ==
  << <<<<"r","a">>,
       <<"r","h","e","u","m","a","t","o","i","d"," ","a","r","t","h","r","i","t","i","s">>>>, \* ra: rheumatoid arthritis
     <<<<"o","a">>,
       <<"o","s","t","e","o","a","r","t","h","r","i","t","i","s">>>>, \* oa: osteoarthritis
     <<<<"t","b">>,
       <<"t","u","b","e","r","c","u","l","o","s","i","s">>>>, \* tb: tuberculosis
     <<<<"d","m">>,
       <<"d","i","a","b","e","t","e","s"," ","m","e","l","l","i","t","u","s">>>>, \* dm: diabetes mellitus
     <<<<"c","v","d">>,
       <<"c","a","r","d","i","o","v","a","s","c","u","l","a","r"," ","d","i","s","e","a","s","e">>>>, \* cvd: cardiovascular disease
     <<<<"m","i">>,
       <<"m","y","o","c","a","r","d","i","a","l"," ","i","n","f","a","r","c","t","i","o","n">>>>, \* mi: myocardial infarction
     <<<<"c","o","p","d">>,
       <<"c","h","r","o","n","i","c"," ","o","b","s","t","r","u","c","t","i","v","e"," ","p","u","l","m","o","n","a","r","y"," ","d","i","s","e","a","s","e">>>>, \* copd: chronic obstructive pulmonary disease
     <<<<"u","t","i">>,
       <<"u","r","i","n","a","r","y"," ","t","r","a","c","t"," ","i","n","f","e","c","t","i","o","n">>>>, \* uti: urinary tract infection
     <<<<"a","r","i">>,
       <<"a","c","u","t","e"," ","r","e","s","p","i","r","a","t","o","r","y"," ","i","n","f","e","c","t","i","o","n">>>>, \* ari: acute respiratory infection
     <<<<"p","i","d">>,
       <<"p","e","l","v","i","c"," ","i","n","f","l","a","m","m","a","t","o","r","y"," ","d","i","s","e","a","s","e">>>> >> \* pid: pelvic inflammatory disease

\* terms of the pediatric age boost
pediatric_terms ==
  << <<"p","e","d","i","a","t","r","i","c">>, \* pediatric
     <<"c","h","i","l","d">>, \* child
     <<"i","n","f","a","n","t">>, \* infant
     <<"j","u","v","e","n","i","l","e">> >> \* juvenile

\* terms of the geriatric age boost
geriatric_terms ==
  << <<"g","e","r","i","a","t","r","i","c">>, \* geriatric
     <<"e","l","d","e","r","l","y">>, \* elderly
     <<"s","e","n","i","o","r">>, \* senior
     <<"a","g","e","-","r","e","l","a","t","e","d">> >> \* age-related

\* gender_terms for "female"
female_terms ==
  << <<"f","e","m","a","l","e">>, \* female
     <<"w","o","m","a","n">>, \* woman
     <<"w","o","m","e","n">>, \* women
     <<"g","y","n","e","c">>, \* gynec
     <<"o","b","s","t","e","t">>, \* obstet
     <<"m","e","n","s","t","r","u","a","l">>, \* menstrual
     <<"p","r","e","g","n","a","n","c","y">> >> \* pregnancy

\* gender_terms for "male"
male_terms ==
  << <<"m","a","l","e">>, \* male
     <<"m","a","n">>, \* man
     <<"m","e","n">>, \* men
     <<"a","n","d","r","o">>, \* andro
     <<"p","r","o","s","t","a","t","e">>, \* prostate
     <<"t","e","s","t","i","c","u","l","a","r">> >> \* testicular

\* complication_keywords of _is_complication_of
complication_keywords ==
  << <<"c","o","m","p","l","i","c","a","t","i","o","n">>, \* complication
     <<"s","e","c","o","n","d","a","r","y">>, \* secondary
     <<"d","u","e"," ","t","o">>, \* due to
     <<"c","a","u","s","e","d"," ","b","y">>, \* caused by
     <<"a","s","s","o","c","i","a","t","e","d"," ","w","i","t","h">>, \* associated with
     <<"r","e","l","a","t","e","d"," ","t","o">>, \* related to
     <<"r","e","s","u","l","t"," ","o","f">> >> \* result of

\* related_terms_map in dict order: each entry is <<key, related terms>>.
related_terms_map ==
  << <<<<"d","i","a","b","e","t","e","s">>, \* diabetes
       <<<<"d","i","a","b","e","t","i","c">>, \* diabetic
         <<"m","a","d","u","m","e","h","a">>, \* madumeha
         <<"s","u","g","a","r">>, \* sugar
         <<"g","l","u","c","o","s","e">>, \* glucose
         <<"h","y","p","e","r","g","l","y","c","e","m">>, \* hyperglycem
         <<"i","n","s","u","l","i","n">>>>>>, \* insulin
     <<<<"h","y","p","e","r","t","e","n","s","i","o","n">>, \* hypertension
       <<<<"h","y","p","e","r","t","e","n","s","i","v","e">>, \* hypertensive
         <<"h","i","g","h"," ","b","l","o","o","d"," ","p","r","e","s","s","u","r","e">>, \* high blood pressure
         <<"h","t","n">>, \* htn
         <<"b","p">>>>>>, \* bp
     <<<<"f","e","v","e","r">>, \* fever
       <<<<"j","w","a","r","a">>, \* jwara
         <<"p","y","r","e","x","i","a">>, \* pyrexia
         <<"t","e","m","p","e","r","a","t","u","r","e">>, \* temperature
         <<"f","e","b","r","i","l","e">>>>>>, \* febrile
     <<<<"a","r","t","h","r","i","t","i","s">>, \* arthritis
       <<<<"j","o","i","n","t">>, \* joint
         <<"a","m","a","v","a","t","a">>, \* amavata
         <<"r","h","e","u","m","a","t">>, \* rheumat
         <<"a","r","t","h","r","a","l","g","i","a">>>>>>, \* arthralgia
     <<<<"a","s","t","h","m","a">>, \* asthma
       <<<<"s","h","w","a","s","a">>, \* shwasa
         <<"b","r","e","a","t","h","i","n","g">>, \* breathing
         <<"w","h","e","e","z">>, \* wheez
         <<"b","r","o","n","c","h">>>>>>, \* bronch
     <<<<"t","b">>, \* tb
       <<<<"t","u","b","e","r","c","u","l","o","s","i","s">>, \* tuberculosis
         <<"r","a","j","a","y","a","k","s","h","m","a">>, \* rajayakshma
         <<"k","s","h","a","y","a">>, \* kshaya
         <<"m","y","c","o","b","a","c","t","e","r">>>>>>, \* mycobacter
     <<<<"a","n","e","m","i","a">>, \* anemia
       <<<<"p","a","n","d","u">>, \* pandu
         <<"h","e","m","o","g","l","o","b","i","n">>, \* hemoglobin
         <<"i","r","o","n">>, \* iron
         <<"h","e","m","a","t">>>>>> >> \* hemat

-----------------------------------------------------------------------------
(* Python str operations.                                                  *)

\* The element of a set of one element.  Only({e : x \in {v}}) is e for
\* x = v, with v computed once and before e, where LET x == v IN e computes
\* v at each use of x.
Only(S) == CHOOSE x \in S : TRUE

\* sub in s
Contains(sub, s) ==
  \/ Len(sub) = 0
  \/ \E i \in 1..(Len(s) - Len(sub) + 1) :
       s[i] = sub[1] /\ SubSeq(s, i, i + Len(sub) - 1) = sub

\* sep.join(parts)
RECURSIVE Join(_, _)
Join(parts, sep) ==
  IF Len(parts) = 0 THEN <<>>
  ELSE IF Len(parts) = 1 THEN parts[1]
  ELSE parts[1] \o sep \o Join(Tail(parts), sep)

\* s.split(c) for a one-character separator c
RECURSIVE Split(_, _)
Split(s, c) ==
  IF \A i \in 1..Len(s) : s[i] # c THEN <<s>>
  ELSE LET k == CHOOSE i \in 1..Len(s) : s[i] = c /\ \A j \in 1..(i - 1) : s[j] # c
       IN <<SubSeq(s, 1, k - 1)>> \o Split(SubSeq(s, k + 1, Len(s)), c)

\* the elements of a list, as a set
Range(f) == {f[i] : i \in DOMAIN f}

\* d.get(key, default)
Get(d, key, default) == IF key \in DOMAIN d THEN d[key] ELSE default

-----------------------------------------------------------------------------
(* str.lower() and the digits of float(): the Unicode tables of Python.     *)

\* c.lower() for the characters c with c.lower() != c (Unicode 14.0, Python
\* 3.11) among the characters a string of this module can hold, as pairs
\* <<c, c.lower()>>.  A lower-case letter that a string of this module cannot
\* hold is written by its code point, as in "U+0253".
UpperToLower ==
  Only({f @@ f
        : f \in {[c \in {p[1] : p \in pairs} |-> (CHOOSE p \in pairs : p[1] = c)[2]]
                 : pairs \in {{
    <<"A", "a">>, <<"B", "b">>, <<"C", "c">>, <<"D", "d">>, <<"E", "e">>, <<"F", "f">>,
    <<"G", "g">>, <<"H", "h">>, <<"I", "i">>, <<"J", "j">>, <<"K", "k">>, <<"L", "l">>,
    <<"M", "m">>, <<"N", "n">>, <<"O", "o">>, <<"P", "p">>, <<"Q", "q">>, <<"R", "r">>,
    <<"S", "s">>, <<"T", "t">>, <<"U", "u">>, <<"V", "v">>, <<"W", "w">>, <<"X", "x">>,
    <<"Y", "y">>, <<"Z", "z">>, <<"À", "à">>, <<"Á", "á">>, <<"Â", "â">>, <<"Ã", "ã">>,
    <<"Ä", "ä">>, <<"Å", "å">>, <<"Æ", "æ">>, <<"Ç", "ç">>, <<"È", "è">>, <<"É", "é">>,
    <<"Ê", "ê">>, <<"Ë", "ë">>, <<"Ì", "ì">>, <<"Í", "í">>, <<"Î", "î">>, <<"Ï", "ï">>,
    <<"Ð", "ð">>, <<"Ñ", "ñ">>, <<"Ò", "ò">>, <<"Ó", "ó">>, <<"Ô", "ô">>, <<"Õ", "õ">>,
    <<"Ö", "ö">>, <<"Ø", "ø">>, <<"Ù", "ù">>, <<"Ú", "ú">>, <<"Û", "û">>, <<"Ü", "ü">>,
    <<"Ý", "ý">>, <<"Þ", "þ">>, <<"Ɓ", "U+0253">>, <<"Ƃ", "ƃ">>, <<"Ƅ", "ƅ">>,
    <<"Ɔ", "U+0254">>, <<"Ƈ", "ƈ">>, <<"Ɖ", "U+0256">>, <<"Ɗ", "U+0257">>, <<"Ƌ", "ƌ">>,
    <<"Ǝ", "ǝ">>, <<"Ə", "U+0259">>, <<"Ɛ", "U+025B">>, <<"Ƒ", "ƒ">>, <<"Ɠ", "U+0260">>,
    <<"Ɣ", "U+0263">>, <<"Ɩ", "U+0269">>, <<"Ɨ", "U+0268">>, <<"Ƙ", "ƙ">>, <<"Ɯ", "U+026F">>,
    <<"Ɲ", "U+0272">>, <<"Ɵ", "U+0275">>, <<"Ơ", "ơ">>, <<"Ƣ", "ƣ">>, <<"Ƥ", "ƥ">>,
    <<"Ʀ", "ʀ">>, <<"Ƨ", "ƨ">>, <<"Ʃ", "ʃ">>, <<"Ƭ", "ƭ">>, <<"Ʈ", "ʈ">>, <<"Ư", "ư">>,
    <<"Ʊ", "ʊ">>, <<"Ʋ", "ʋ">>, <<"Ƴ", "ƴ">>, <<"Ƶ", "ƶ">>, <<"Ʒ", "ʒ">>, <<"Ƹ", "ƹ">>,
    <<"Ƽ", "ƽ">>, <<"Ǆ", "ǆ">>, <<"ǅ", "ǆ">>, <<"Ǉ", "ǉ">>, <<"ǈ", "ǉ">>, <<"Ǌ", "ǌ">>,
    <<"ǋ", "ǌ">>, <<"Ǎ", "ǎ">>, <<"Ǐ", "ǐ">>, <<"Ǒ", "ǒ">>, <<"Ǔ", "ǔ">>, <<"Ǖ", "ǖ">>,
    <<"Ǘ", "ǘ">>, <<"Ǚ", "ǚ">>, <<"Ǜ", "ǜ">>, <<"Ǟ", "ǟ">>, <<"Ǡ", "ǡ">>, <<"Ǣ", "ǣ">>,
    <<"Ǥ", "ǥ">>, <<"Ǧ", "ǧ">>, <<"Ǩ", "ǩ">>, <<"Ǫ", "ǫ">>, <<"Ǭ", "ǭ">>, <<"Ǯ", "ǯ">>,
    <<"Ǳ", "ǳ">>, <<"ǲ", "ǳ">>, <<"Ǵ", "ǵ">>, <<"Ƕ", "ƕ">>, <<"Ƿ", "ƿ">>, <<"Ǹ", "ǹ">>,
    <<"Ǻ", "ǻ">>, <<"Ǽ", "ǽ">>, <<"Ǿ", "ǿ">>, <<"Ά", "ά">>, <<"Έ", "έ">>, <<"Ή", "ή">>,
    <<"Ί", "ί">>, <<"Ό", "ό">>, <<"Ύ", "ύ">>, <<"Ώ", "ώ">>, <<"Α", "α">>, <<"Β", "β">>,
    <<"Γ", "γ">>, <<"Δ", "δ">>, <<"Ε", "ε">>, <<"Ζ", "ζ">>, <<"Η", "η">>, <<"Θ", "θ">>,
    <<"Ι", "ι">>, <<"Κ", "κ">>, <<"Λ", "λ">>, <<"Μ", "μ">>, <<"Ν", "ν">>, <<"Ξ", "ξ">>,
    <<"Ο", "ο">>, <<"Π", "π">>, <<"Ρ", "ρ">>, <<"Σ", "σ">>, <<"Τ", "τ">>, <<"Υ", "υ">>,
    <<"Φ", "φ">>, <<"Χ", "χ">>, <<"Ψ", "ψ">>, <<"Ω", "ω">>, <<"Ϊ", "ϊ">>, <<"Ϋ", "ϋ">>,
    <<"Ϗ", "ϗ">>, <<"Ϙ", "ϙ">>, <<"Ϛ", "ϛ">>, <<"Ϝ", "ϝ">>, <<"Ϟ", "ϟ">>, <<"Ϡ", "ϡ">>,
    <<"Ϣ", "ϣ">>, <<"Ϥ", "ϥ">>, <<"Ϧ", "ϧ">>, <<"Ϩ", "ϩ">>, <<"Ϫ", "ϫ">>, <<"Ϭ", "ϭ">>,
    <<"Ϯ", "ϯ">>, <<"ϴ", "θ">>, <<"Ϸ", "ϸ">>, <<"Ϲ", "ϲ">>, <<"Ϻ", "ϻ">>, <<"Ͻ", "U+037B">>,
    <<"Ͼ", "U+037C">>, <<"Ͽ", "U+037D">>, <<"Ҁ", "ҁ">>, <<"Ҋ", "ҋ">>, <<"Ҍ", "ҍ">>,
    <<"Ҏ", "ҏ">>, <<"Ґ", "ґ">>, <<"Ғ", "ғ">>, <<"Ҕ", "ҕ">>, <<"Җ", "җ">>, <<"Ҙ", "ҙ">>,
    <<"Қ", "қ">>, <<"Ҝ", "ҝ">>, <<"Ҟ", "ҟ">>, <<"Ҡ", "ҡ">>, <<"Ң", "ң">>, <<"Ҥ", "ҥ">>,
    <<"Ҧ", "ҧ">>, <<"Ҩ", "ҩ">>, <<"Ҫ", "ҫ">>, <<"Ҭ", "ҭ">>, <<"Ү", "ү">>, <<"Ұ", "ұ">>,
    <<"Ҳ", "ҳ">>, <<"Ҵ", "ҵ">>, <<"Ҷ", "ҷ">>, <<"Ҹ", "ҹ">>, <<"Һ", "һ">>, <<"Ҽ", "ҽ">>,
    <<"Ҿ", "ҿ">>, <<"Ӏ", "ӏ">>, <<"Ӂ", "ӂ">>, <<"Ӄ", "ӄ">>, <<"Ӆ", "ӆ">>, <<"Ӈ", "ӈ">>,
    <<"Ӊ", "ӊ">>, <<"Ӌ", "ӌ">>, <<"Ӎ", "ӎ">>, <<"Ӑ", "ӑ">>, <<"Ӓ", "ӓ">>, <<"Ӕ", "ӕ">>,
    <<"Ӗ", "ӗ">>, <<"Ә", "ә">>, <<"Ӛ", "ӛ">>, <<"Ӝ", "ӝ">>, <<"Ӟ", "ӟ">>, <<"Ӡ", "ӡ">>,
    <<"Ӣ", "ӣ">>, <<"Ӥ", "ӥ">>, <<"Ӧ", "ӧ">>, <<"Ө", "ө">>, <<"Ӫ", "ӫ">>, <<"Ӭ", "ӭ">>,
    <<"Ӯ", "ӯ">>, <<"Ӱ", "ӱ">>, <<"Ӳ", "ӳ">>, <<"Ӵ", "ӵ">>, <<"Ӷ", "ӷ">>, <<"Ӹ", "ӹ">>,
    <<"Ӻ", "ӻ">>, <<"Ӽ", "ӽ">>, <<"Ӿ", "ӿ">>, <<"Ⴀ", "U+2D00">>, <<"Ⴁ", "U+2D01">>,
    <<"Ⴂ", "U+2D02">>, <<"Ⴃ", "U+2D03">>, <<"Ⴄ", "U+2D04">>, <<"Ⴅ", "U+2D05">>,
    <<"Ⴆ", "U+2D06">>, <<"Ⴇ", "U+2D07">>, <<"Ⴈ", "U+2D08">>, <<"Ⴉ", "U+2D09">>,
    <<"Ⴊ", "U+2D0A">>, <<"Ⴋ", "U+2D0B">>, <<"Ⴌ", "U+2D0C">>, <<"Ⴍ", "U+2D0D">>,
    <<"Ⴎ", "U+2D0E">>, <<"Ⴏ", "U+2D0F">>, <<"Ⴐ", "U+2D10">>, <<"Ⴑ", "U+2D11">>,
    <<"Ⴒ", "U+2D12">>, <<"Ⴓ", "U+2D13">>, <<"Ⴔ", "U+2D14">>, <<"Ⴕ", "U+2D15">>,
    <<"Ⴖ", "U+2D16">>, <<"Ⴗ", "U+2D17">>, <<"Ⴘ", "U+2D18">>, <<"Ⴙ", "U+2D19">>,
    <<"Ⴚ", "U+2D1A">>, <<"Ⴛ", "U+2D1B">>, <<"Ⴜ", "U+2D1C">>, <<"Ⴝ", "U+2D1D">>,
    <<"Ⴞ", "U+2D1E">>, <<"Ⴟ", "U+2D1F">>, <<"Ⴠ", "U+2D20">>, <<"Ⴡ", "U+2D21">>,
    <<"Ⴢ", "U+2D22">>, <<"Ⴣ", "U+2D23">>, <<"Ⴤ", "U+2D24">>, <<"Ⴥ", "U+2D25">>,
    <<"Ⴧ", "U+2D27">>, <<"Ⴭ", "U+2D2D">>, <<"Ꭰ", "U+AB70">>, <<"Ꭱ", "U+AB71">>,
    <<"Ꭲ", "U+AB72">>, <<"Ꭳ", "U+AB73">>, <<"Ꭴ", "U+AB74">>, <<"Ꭵ", "U+AB75">>,
    <<"Ꭶ", "U+AB76">>, <<"Ꭷ", "U+AB77">>, <<"Ꭸ", "U+AB78">>, <<"Ꭹ", "U+AB79">>,
    <<"Ꭺ", "U+AB7A">>, <<"Ꭻ", "U+AB7B">>, <<"Ꭼ", "U+AB7C">>, <<"Ꭽ", "U+AB7D">>,
    <<"Ꭾ", "U+AB7E">>, <<"Ꭿ", "U+AB7F">>, <<"Ꮀ", "ꮀ">>, <<"Ꮁ", "ꮁ">>, <<"Ꮂ", "ꮂ">>,
    <<"Ꮃ", "ꮃ">>, <<"Ꮄ", "ꮄ">>, <<"Ꮅ", "ꮅ">>, <<"Ꮆ", "ꮆ">>, <<"Ꮇ", "ꮇ">>, <<"Ꮈ", "ꮈ">>,
    <<"Ꮉ", "ꮉ">>, <<"Ꮊ", "ꮊ">>, <<"Ꮋ", "ꮋ">>, <<"Ꮌ", "ꮌ">>, <<"Ꮍ", "ꮍ">>, <<"Ꮎ", "ꮎ">>,
    <<"Ꮏ", "ꮏ">>, <<"Ꮐ", "ꮐ">>, <<"Ꮑ", "ꮑ">>, <<"Ꮒ", "ꮒ">>, <<"Ꮓ", "ꮓ">>, <<"Ꮔ", "ꮔ">>,
    <<"Ꮕ", "ꮕ">>, <<"Ꮖ", "ꮖ">>, <<"Ꮗ", "ꮗ">>, <<"Ꮘ", "ꮘ">>, <<"Ꮙ", "ꮙ">>, <<"Ꮚ", "ꮚ">>,
    <<"Ꮛ", "ꮛ">>, <<"Ꮜ", "ꮜ">>, <<"Ꮝ", "ꮝ">>, <<"Ꮞ", "ꮞ">>, <<"Ꮟ", "ꮟ">>, <<"Ꮠ", "ꮠ">>,
    <<"Ꮡ", "ꮡ">>, <<"Ꮢ", "ꮢ">>, <<"Ꮣ", "ꮣ">>, <<"Ꮤ", "ꮤ">>, <<"Ꮥ", "ꮥ">>, <<"Ꮦ", "ꮦ">>,
    <<"Ꮧ", "ꮧ">>, <<"Ꮨ", "ꮨ">>, <<"Ꮩ", "ꮩ">>, <<"Ꮪ", "ꮪ">>, <<"Ꮫ", "ꮫ">>, <<"Ꮬ", "ꮬ">>,
    <<"Ꮭ", "ꮭ">>, <<"Ꮮ", "ꮮ">>, <<"Ꮯ", "ꮯ">>, <<"Ꮰ", "ꮰ">>, <<"Ꮱ", "ꮱ">>, <<"Ꮲ", "ꮲ">>,
    <<"Ꮳ", "ꮳ">>, <<"Ꮴ", "ꮴ">>, <<"Ꮵ", "ꮵ">>, <<"Ꮶ", "ꮶ">>, <<"Ꮷ", "ꮷ">>, <<"Ꮸ", "ꮸ">>,
    <<"Ꮹ", "ꮹ">>, <<"Ꮺ", "ꮺ">>, <<"Ꮻ", "ꮻ">>, <<"Ꮼ", "ꮼ">>, <<"Ꮽ", "ꮽ">>, <<"Ꮾ", "ꮾ">>,
    <<"Ꮿ", "ꮿ">>, <<"Ᏸ", "ᏸ">>, <<"Ᏹ", "ᏹ">>, <<"Ᏺ", "ᏺ">>, <<"Ᏻ", "ᏻ">>, <<"Ᏼ", "ᏼ">>,
    <<"Ᏽ", "ᏽ">>, <<"Ა", "ა">>, <<"Ბ", "ბ">>, <<"Გ", "გ">>, <<"Დ", "დ">>, <<"Ე", "ე">>,
    <<"Ვ", "ვ">>, <<"Ზ", "ზ">>, <<"Თ", "თ">>, <<"Ი", "ი">>, <<"Კ", "კ">>, <<"Ლ", "ლ">>,
    <<"Მ", "მ">>, <<"Ნ", "ნ">>, <<"Ო", "ო">>, <<"Პ", "პ">>, <<"Ჟ", "ჟ">>, <<"Რ", "რ">>,
    <<"Ს", "ს">>, <<"Ტ", "ტ">>, <<"Უ", "უ">>, <<"Ფ", "ფ">>, <<"Ქ", "ქ">>, <<"Ღ", "ღ">>,
    <<"Ყ", "ყ">>, <<"Შ", "შ">>, <<"Ჩ", "ჩ">>, <<"Ც", "ც">>, <<"Ძ", "ძ">>, <<"Წ", "წ">>,
    <<"Ჭ", "ჭ">>, <<"Ხ", "ხ">>, <<"Ჯ", "ჯ">>, <<"Ჰ", "ჰ">>, <<"Ჱ", "ჱ">>, <<"Ჲ", "ჲ">>,
    <<"Ჳ", "ჳ">>, <<"Ჴ", "ჴ">>, <<"Ჵ", "ჵ">>, <<"Ჶ", "ჶ">>, <<"Ჷ", "ჷ">>, <<"Ჸ", "ჸ">>,
    <<"Ჹ", "ჹ">>, <<"Ჺ", "ჺ">>, <<"Ჽ", "ჽ">>, <<"Ჾ", "ჾ">>, <<"Ჿ", "ჿ">>, <<"Ẁ", "ẁ">>,
    <<"Ẃ", "ẃ">>, <<"Ẅ", "ẅ">>, <<"Ẇ", "ẇ">>, <<"Ẉ", "ẉ">>, <<"Ẋ", "ẋ">>, <<"Ẍ", "ẍ">>,
    <<"Ẏ", "ẏ">>, <<"Ẑ", "ẑ">>, <<"Ẓ", "ẓ">>, <<"Ẕ", "ẕ">>, <<"ẞ", "ß">>, <<"Ạ", "ạ">>,
    <<"Ả", "ả">>, <<"Ấ", "ấ">>, <<"Ầ", "ầ">>, <<"Ẩ", "ẩ">>, <<"Ẫ", "ẫ">>, <<"Ậ", "ậ">>,
    <<"Ắ", "ắ">>, <<"Ằ", "ằ">>, <<"Ẳ", "ẳ">>, <<"Ẵ", "ẵ">>, <<"Ặ", "ặ">>, <<"Ẹ", "ẹ">>,
    <<"Ẻ", "ẻ">>, <<"Ẽ", "ẽ">>, <<"Ế", "ế">>, <<"Ề", "ề">>, <<"Ể", "ể">>, <<"Ễ", "ễ">>,
    <<"Ệ", "ệ">>, <<"Ỉ", "ỉ">>, <<"Ị", "ị">>, <<"Ọ", "ọ">>, <<"Ỏ", "ỏ">>, <<"Ố", "ố">>,
    <<"Ồ", "ồ">>, <<"Ổ", "ổ">>, <<"Ỗ", "ỗ">>, <<"Ộ", "ộ">>, <<"Ớ", "ớ">>, <<"Ờ", "ờ">>,
    <<"Ở", "ở">>, <<"Ỡ", "ỡ">>, <<"Ợ", "ợ">>, <<"Ụ", "ụ">>, <<"Ủ", "ủ">>, <<"Ứ", "ứ">>,
    <<"Ừ", "ừ">>, <<"Ử", "ử">>, <<"Ữ", "ữ">>, <<"Ự", "ự">>, <<"Ỳ", "ỳ">>, <<"Ỵ", "ỵ">>,
    <<"Ỷ", "ỷ">>, <<"Ỹ", "ỹ">>, <<"Ỻ", "ỻ">>, <<"Ỽ", "ỽ">>, <<"Ỿ", "ỿ">>, <<"ᾈ", "ᾀ">>,
    <<"ᾉ", "ᾁ">>, <<"ᾊ", "ᾂ">>, <<"ᾋ", "ᾃ">>, <<"ᾌ", "ᾄ">>, <<"ᾍ", "ᾅ">>, <<"ᾎ", "ᾆ">>,
    <<"ᾏ", "ᾇ">>, <<"ᾘ", "ᾐ">>, <<"ᾙ", "ᾑ">>, <<"ᾚ", "ᾒ">>, <<"ᾛ", "ᾓ">>, <<"ᾜ", "ᾔ">>,
    <<"ᾝ", "ᾕ">>, <<"ᾞ", "ᾖ">>, <<"ᾟ", "ᾗ">>, <<"ᾨ", "ᾠ">>, <<"ᾩ", "ᾡ">>, <<"ᾪ", "ᾢ">>,
    <<"ᾫ", "ᾣ">>, <<"ᾬ", "ᾤ">>, <<"ᾭ", "ᾥ">>, <<"ᾮ", "ᾦ">>, <<"ᾯ", "ᾧ">>, <<"Ᾰ", "ᾰ">>,
    <<"Ᾱ", "ᾱ">>, <<"Ὰ", "U+1F70">>, <<"Ά", "U+1F71">>, <<"ᾼ", "ᾳ">>, <<"Ὲ", "U+1F72">>,
    <<"Έ", "U+1F73">>, <<"Ὴ", "U+1F74">>, <<"Ή", "U+1F75">>, <<"ῌ", "ῃ">>, <<"Ῐ", "ῐ">>,
    <<"Ῑ", "ῑ">>, <<"Ὶ", "U+1F76">>, <<"Ί", "U+1F77">>, <<"Ῠ", "ῠ">>, <<"Ῡ", "ῡ">>,
    <<"Ὺ", "U+1F7A">>, <<"Ύ", "U+1F7B">>, <<"Ῥ", "ῥ">>, <<"Ὸ", "U+1F78">>, <<"Ό", "U+1F79">>,
    <<"Ὼ", "U+1F7C">>, <<"Ώ", "U+1F7D">>, <<"ῼ", "ῳ">>, <<"Ↄ", "ↄ">>, <<"Ⓐ", "ⓐ">>,
    <<"Ⓑ", "ⓑ">>, <<"Ⓒ", "ⓒ">>, <<"Ⓓ", "ⓓ">>, <<"Ⓔ", "ⓔ">>, <<"Ⓕ", "ⓕ">>, <<"Ⓖ", "ⓖ">>,
    <<"Ⓗ", "ⓗ">>, <<"Ⓘ", "ⓘ">>, <<"Ⓙ", "ⓙ">>, <<"Ⓚ", "ⓚ">>, <<"Ⓛ", "ⓛ">>, <<"Ⓜ", "ⓜ">>,
    <<"Ⓝ", "ⓝ">>, <<"Ⓞ", "ⓞ">>, <<"Ⓟ", "ⓟ">>, <<"Ⓠ", "ⓠ">>, <<"Ⓡ", "ⓡ">>, <<"Ⓢ", "ⓢ">>,
    <<"Ⓣ", "ⓣ">>, <<"Ⓤ", "ⓤ">>, <<"Ⓥ", "ⓥ">>, <<"Ⓦ", "ⓦ">>, <<"Ⓧ", "ⓧ">>, <<"Ⓨ", "ⓨ">>,
    <<"Ⓩ", "ⓩ">>, <<"Ⲁ", "ⲁ">>, <<"Ⲃ", "ⲃ">>, <<"Ⲅ", "ⲅ">>, <<"Ⲇ", "ⲇ">>, <<"Ⲉ", "ⲉ">>,
    <<"Ⲋ", "ⲋ">>, <<"Ⲍ", "ⲍ">>, <<"Ⲏ", "ⲏ">>, <<"Ⲑ", "ⲑ">>, <<"Ⲓ", "ⲓ">>, <<"Ⲕ", "ⲕ">>,
    <<"Ⲗ", "ⲗ">>, <<"Ⲙ", "ⲙ">>, <<"Ⲛ", "ⲛ">>, <<"Ⲝ", "ⲝ">>, <<"Ⲟ", "ⲟ">>, <<"Ⲡ", "ⲡ">>,
    <<"Ⲣ", "ⲣ">>, <<"Ⲥ", "ⲥ">>, <<"Ⲧ", "ⲧ">>, <<"Ⲩ", "ⲩ">>, <<"Ⲫ", "ⲫ">>, <<"Ⲭ", "ⲭ">>,
    <<"Ⲯ", "ⲯ">>, <<"Ⲱ", "ⲱ">>, <<"Ⲳ", "ⲳ">>, <<"Ⲵ", "ⲵ">>, <<"Ⲷ", "ⲷ">>, <<"Ⲹ", "ⲹ">>,
    <<"Ⲻ", "ⲻ">>, <<"Ⲽ", "ⲽ">>, <<"Ⲿ", "ⲿ">>, <<"Ⳁ", "ⳁ">>, <<"Ⳃ", "ⳃ">>, <<"Ⳅ", "ⳅ">>,
    <<"Ⳇ", "ⳇ">>, <<"Ⳉ", "ⳉ">>, <<"Ⳋ", "ⳋ">>, <<"Ⳍ", "ⳍ">>, <<"Ⳏ", "ⳏ">>, <<"Ⳑ", "ⳑ">>,
    <<"Ⳓ", "ⳓ">>, <<"Ⳕ", "ⳕ">>, <<"Ⳗ", "ⳗ">>, <<"Ⳙ", "ⳙ">>, <<"Ⳛ", "ⳛ">>, <<"Ⳝ", "ⳝ">>,
    <<"Ⳟ", "ⳟ">>, <<"Ⳡ", "ⳡ">>, <<"Ⳣ", "ⳣ">>, <<"Ⳬ", "ⳬ">>, <<"Ⳮ", "ⳮ">>, <<"Ⳳ", "ⳳ">>,
    <<"Ꚁ", "ꚁ">>, <<"Ꚃ", "ꚃ">>, <<"Ꚅ", "ꚅ">>, <<"Ꚇ", "ꚇ">>, <<"Ꚉ", "ꚉ">>, <<"Ꚋ", "ꚋ">>,
    <<"Ꚍ", "ꚍ">>, <<"Ꚏ", "ꚏ">>, <<"Ꚑ", "ꚑ">>, <<"Ꚓ", "ꚓ">>, <<"Ꚕ", "ꚕ">>, <<"Ꚗ", "ꚗ">>,
    <<"Ꚙ", "ꚙ">>, <<"Ꚛ", "ꚛ">>, <<"Ꞁ", "ꞁ">>, <<"Ꞃ", "ꞃ">>, <<"Ꞅ", "ꞅ">>, <<"Ꞇ", "ꞇ">>,
    <<"Ꞌ", "ꞌ">>, <<"Ɥ", "U+0265">>, <<"Ꞑ", "ꞑ">>, <<"Ꞓ", "ꞓ">>, <<"Ꞗ", "ꞗ">>, <<"Ꞙ", "ꞙ">>,
    <<"Ꞛ", "ꞛ">>, <<"Ꞝ", "ꞝ">>, <<"Ꞟ", "ꞟ">>, <<"Ꞡ", "ꞡ">>, <<"Ꞣ", "ꞣ">>, <<"Ꞥ", "ꞥ">>,
    <<"Ꞧ", "ꞧ">>, <<"Ꞩ", "ꞩ">>, <<"Ɦ", "U+0266">>, <<"Ɜ", "U+025C">>, <<"Ɡ", "U+0261">>,
    <<"Ɬ", "U+026C">>, <<"Ɪ", "U+026A">>, <<"Ʞ", "ʞ">>, <<"Ʇ", "ʇ">>, <<"Ʝ", "ʝ">>,
    <<"Ꭓ", "U+AB53">>, <<"Ꞵ", "ꞵ">>, <<"Ꞷ", "ꞷ">>, <<"Ꞹ", "ꞹ">>, <<"Ꞻ", "ꞻ">>, <<"Ꞽ", "ꞽ">>,
    <<"Ꞿ", "ꞿ">>, <<"Ꟁ", "ꟁ">>, <<"Ꟃ", "ꟃ">>, <<"Ꞔ", "ꞔ">>, <<"Ʂ", "ʂ">>, <<"Ᶎ", "ᶎ">>,
    <<"Ꟈ", "ꟈ">>, <<"Ꟊ", "ꟊ">>, <<"Ꟑ", "ꟑ">>, <<"Ꟗ", "ꟗ">>, <<"Ꟙ", "ꟙ">>, <<"Ꟶ", "ꟶ">>}}}})

\* The characters that are cased and not case-ignorable (Unicode 14.0), among
\* the characters a string of this module can hold and the letters written by
\* code point.
Cased ==
  {"A", "B", "C", "D", "E", "F", "G", "H", "I", "J", "K", "L", "M", "N", "O", "P", "Q", "R",
   "S", "T", "U", "V", "W", "X", "Y", "Z", "a", "b", "c", "d", "e", "f", "g", "h", "i", "j",
   "k", "l", "m", "n", "o", "p", "q", "r", "s", "t", "u", "v", "w", "x", "y", "z", "ª", "µ",
   "º", "À", "Á", "Â", "Ã", "Ä", "Å", "Æ", "Ç", "È", "É", "Ê", "Ë", "Ì", "Í", "Î", "Ï", "Ð",
   "Ñ", "Ò", "Ó", "Ô", "Õ", "Ö", "Ø", "Ù", "Ú", "Û", "Ü", "Ý", "Þ", "ß", "à", "á", "â", "ã",
   "ä", "å", "æ", "ç", "è", "é", "ê", "ë", "ì", "í", "î", "ï", "ð", "ñ", "ò", "ó", "ô", "õ",
   "ö", "ø", "ù", "ú", "û", "ü", "ý", "þ", "ÿ", "ƀ", "Ɓ", "Ƃ", "ƃ", "Ƅ", "ƅ", "Ɔ", "Ƈ", "ƈ",
   "Ɖ", "Ɗ", "Ƌ", "ƌ", "ƍ", "Ǝ", "Ə", "Ɛ", "Ƒ", "ƒ", "Ɠ", "Ɣ", "ƕ", "Ɩ", "Ɨ", "Ƙ", "ƙ", "ƚ",
   "ƛ", "Ɯ", "Ɲ", "ƞ", "Ɵ", "Ơ", "ơ", "Ƣ", "ƣ", "Ƥ", "ƥ", "Ʀ", "Ƨ", "ƨ", "Ʃ", "ƪ", "ƫ", "Ƭ",
   "ƭ", "Ʈ", "Ư", "ư", "Ʊ", "Ʋ", "Ƴ", "ƴ", "Ƶ", "ƶ", "Ʒ", "Ƹ", "ƹ", "ƺ", "Ƽ", "ƽ", "ƾ", "ƿ",
   "Ǆ", "ǅ", "ǆ", "Ǉ", "ǈ", "ǉ", "Ǌ", "ǋ", "ǌ", "Ǎ", "ǎ", "Ǐ", "ǐ", "Ǒ", "ǒ", "Ǔ", "ǔ", "Ǖ",
   "ǖ", "Ǘ", "ǘ", "Ǚ", "ǚ", "Ǜ", "ǜ", "ǝ", "Ǟ", "ǟ", "Ǡ", "ǡ", "Ǣ", "ǣ", "Ǥ", "ǥ", "Ǧ", "ǧ",
   "Ǩ", "ǩ", "Ǫ", "ǫ", "Ǭ", "ǭ", "Ǯ", "ǯ", "ǰ", "Ǳ", "ǲ", "ǳ", "Ǵ", "ǵ", "Ƕ", "Ƿ", "Ǹ", "ǹ",
   "Ǻ", "ǻ", "Ǽ", "ǽ", "Ǿ", "ǿ", "ʀ", "ʁ", "ʂ", "ʃ", "ʄ", "ʅ", "ʆ", "ʇ", "ʈ", "ʉ", "ʊ", "ʋ",
   "ʌ", "ʍ", "ʎ", "ʏ", "ʐ", "ʑ", "ʒ", "ʓ", "ʕ", "ʖ", "ʗ", "ʘ", "ʙ", "ʚ", "ʛ", "ʜ", "ʝ", "ʞ",
   "ʟ", "ʠ", "ʡ", "ʢ", "ʣ", "ʤ", "ʥ", "ʦ", "ʧ", "ʨ", "ʩ", "ʪ", "ʫ", "ʬ", "ʭ", "ʮ", "ʯ", "Ά",
   "Έ", "Ή", "Ί", "Ό", "Ύ", "Ώ", "ΐ", "Α", "Β", "Γ", "Δ", "Ε", "Ζ", "Η", "Θ", "Ι", "Κ", "Λ",
   "Μ", "Ν", "Ξ", "Ο", "Π", "Ρ", "Σ", "Τ", "Υ", "Φ", "Χ", "Ψ", "Ω", "Ϊ", "Ϋ", "ά", "έ", "ή",
   "ί", "ΰ", "α", "β", "γ", "δ", "ε", "ζ", "η", "θ", "ι", "κ", "λ", "μ", "ν", "ξ", "ο", "π",
   "ρ", "ς", "σ", "τ", "υ", "φ", "χ", "ψ", "ω", "ϊ", "ϋ", "ό", "ύ", "ώ", "Ϗ", "ϐ", "ϑ", "ϒ",
   "ϓ", "ϔ", "ϕ", "ϖ", "ϗ", "Ϙ", "ϙ", "Ϛ", "ϛ", "Ϝ", "ϝ", "Ϟ", "ϟ", "Ϡ", "ϡ", "Ϣ", "ϣ", "Ϥ",
   "ϥ", "Ϧ", "ϧ", "Ϩ", "ϩ", "Ϫ", "ϫ", "Ϭ", "ϭ", "Ϯ", "ϯ", "ϰ", "ϱ", "ϲ", "ϳ", "ϴ", "ϵ", "Ϸ",
   "ϸ", "Ϲ", "Ϻ", "ϻ", "ϼ", "Ͻ", "Ͼ", "Ͽ", "Ҁ", "ҁ", "Ҋ", "ҋ", "Ҍ", "ҍ", "Ҏ", "ҏ", "Ґ", "ґ",
   "Ғ", "ғ", "Ҕ", "ҕ", "Җ", "җ", "Ҙ", "ҙ", "Қ", "қ", "Ҝ", "ҝ", "Ҟ", "ҟ", "Ҡ", "ҡ", "Ң", "ң",
   "Ҥ", "ҥ", "Ҧ", "ҧ", "Ҩ", "ҩ", "Ҫ", "ҫ", "Ҭ", "ҭ", "Ү", "ү", "Ұ", "ұ", "Ҳ", "ҳ", "Ҵ", "ҵ",
   "Ҷ", "ҷ", "Ҹ", "ҹ", "Һ", "һ", "Ҽ", "ҽ", "Ҿ", "ҿ", "Ӏ", "Ӂ", "ӂ", "Ӄ", "ӄ", "Ӆ", "ӆ", "Ӈ",
   "ӈ", "Ӊ", "ӊ", "Ӌ", "ӌ", "Ӎ", "ӎ", "ӏ", "Ӑ", "ӑ", "Ӓ", "ӓ", "Ӕ", "ӕ", "Ӗ", "ӗ", "Ә", "ә",
   "Ӛ", "ӛ", "Ӝ", "ӝ", "Ӟ", "ӟ", "Ӡ", "ӡ", "Ӣ", "ӣ", "Ӥ", "ӥ", "Ӧ", "ӧ", "Ө", "ө", "Ӫ", "ӫ",
   "Ӭ", "ӭ", "Ӯ", "ӯ", "Ӱ", "ӱ", "Ӳ", "ӳ", "Ӵ", "ӵ", "Ӷ", "ӷ", "Ӹ", "ӹ", "Ӻ", "ӻ", "Ӽ", "ӽ",
   "Ӿ", "ӿ", "ր", "ց", "ւ", "փ", "ք", "օ", "ֆ", "և", "ֈ", "Ⴀ", "Ⴁ", "Ⴂ", "Ⴃ", "Ⴄ", "Ⴅ", "Ⴆ",
   "Ⴇ", "Ⴈ", "Ⴉ", "Ⴊ", "Ⴋ", "Ⴌ", "Ⴍ", "Ⴎ", "Ⴏ", "Ⴐ", "Ⴑ", "Ⴒ", "Ⴓ", "Ⴔ", "Ⴕ", "Ⴖ", "Ⴗ", "Ⴘ",
   "Ⴙ", "Ⴚ", "Ⴛ", "Ⴜ", "Ⴝ", "Ⴞ", "Ⴟ", "Ⴠ", "Ⴡ", "Ⴢ", "Ⴣ", "Ⴤ", "Ⴥ", "Ⴧ", "Ⴭ", "ა", "ბ", "გ",
   "დ", "ე", "ვ", "ზ", "თ", "ი", "კ", "ლ", "მ", "ნ", "ო", "პ", "ჟ", "რ", "ს", "ტ", "უ", "ფ",
   "ქ", "ღ", "ყ", "შ", "ჩ", "ც", "ძ", "წ", "ჭ", "ხ", "ჯ", "ჰ", "ჱ", "ჲ", "ჳ", "ჴ", "ჵ", "ჶ",
   "ჷ", "ჸ", "ჹ", "ჺ", "ჽ", "ჾ", "ჿ", "Ꭰ", "Ꭱ", "Ꭲ", "Ꭳ", "Ꭴ", "Ꭵ", "Ꭶ", "Ꭷ", "Ꭸ", "Ꭹ", "Ꭺ",
   "Ꭻ", "Ꭼ", "Ꭽ", "Ꭾ", "Ꭿ", "Ꮀ", "Ꮁ", "Ꮂ", "Ꮃ", "Ꮄ", "Ꮅ", "Ꮆ", "Ꮇ", "Ꮈ", "Ꮉ", "Ꮊ", "Ꮋ", "Ꮌ",
   "Ꮍ", "Ꮎ", "Ꮏ", "Ꮐ", "Ꮑ", "Ꮒ", "Ꮓ", "Ꮔ", "Ꮕ", "Ꮖ", "Ꮗ", "Ꮘ", "Ꮙ", "Ꮚ", "Ꮛ", "Ꮜ", "Ꮝ", "Ꮞ",
   "Ꮟ", "Ꮠ", "Ꮡ", "Ꮢ", "Ꮣ", "Ꮤ", "Ꮥ", "Ꮦ", "Ꮧ", "Ꮨ", "Ꮩ", "Ꮪ", "Ꮫ", "Ꮬ", "Ꮭ", "Ꮮ", "Ꮯ", "Ꮰ",
   "Ꮱ", "Ꮲ", "Ꮳ", "Ꮴ", "Ꮵ", "Ꮶ", "Ꮷ", "Ꮸ", "Ꮹ", "Ꮺ", "Ꮻ", "Ꮼ", "Ꮽ", "Ꮾ", "Ꮿ", "Ᏸ", "Ᏹ", "Ᏺ",
   "Ᏻ", "Ᏼ", "Ᏽ", "ᏸ", "ᏹ", "ᏺ", "ᏻ", "ᏼ", "ᏽ", "ᲀ", "ᲁ", "ᲂ", "ᲃ", "ᲄ", "ᲅ", "ᲆ", "ᲇ", "ᲈ",
   "Ა", "Ბ", "Გ", "Დ", "Ე", "Ვ", "Ზ", "Თ", "Ი", "Კ", "Ლ", "Მ", "Ნ", "Ო", "Პ", "Ჟ", "Რ", "Ს",
   "Ტ", "Უ", "Ფ", "Ქ", "Ღ", "Ყ", "Შ", "Ჩ", "Ც", "Ძ", "Წ", "Ჭ", "Ხ", "Ჯ", "Ჰ", "Ჱ", "Ჲ", "Ჳ",
   "Ჴ", "Ჵ", "Ჶ", "Ჷ", "Ჸ", "Ჹ", "Ჺ", "Ჽ", "Ჾ", "Ჿ", "ᶀ", "ᶁ", "ᶂ", "ᶃ", "ᶄ", "ᶅ", "ᶆ", "ᶇ",
   "ᶈ", "ᶉ", "ᶊ", "ᶋ", "ᶌ", "ᶍ", "ᶎ", "ᶏ", "ᶐ", "ᶑ", "ᶒ", "ᶓ", "ᶔ", "ᶕ", "ᶖ", "ᶗ", "ᶘ", "ᶙ",
   "ᶚ", "Ẁ", "ẁ", "Ẃ", "ẃ", "Ẅ", "ẅ", "Ẇ", "ẇ", "Ẉ", "ẉ", "Ẋ", "ẋ", "Ẍ", "ẍ", "Ẏ", "ẏ", "Ẑ",
   "ẑ", "Ẓ", "ẓ", "Ẕ", "ẕ", "ẖ", "ẗ", "ẘ", "ẙ", "ẚ", "ẛ", "ẜ", "ẝ", "ẞ", "ẟ", "Ạ", "ạ", "Ả",
   "ả", "Ấ", "ấ", "Ầ", "ầ", "Ẩ", "ẩ", "Ẫ", "ẫ", "Ậ", "ậ", "Ắ", "ắ", "Ằ", "ằ", "Ẳ", "ẳ", "Ẵ",
   "ẵ", "Ặ", "ặ", "Ẹ", "ẹ", "Ẻ", "ẻ", "Ẽ", "ẽ", "Ế", "ế", "Ề", "ề", "Ể", "ể", "Ễ", "ễ", "Ệ",
   "ệ", "Ỉ", "ỉ", "Ị", "ị", "Ọ", "ọ", "Ỏ", "ỏ", "Ố", "ố", "Ồ", "ồ", "Ổ", "ổ", "Ỗ", "ỗ", "Ộ",
   "ộ", "Ớ", "ớ", "Ờ", "ờ", "Ở", "ở", "Ỡ", "ỡ", "Ợ", "ợ", "Ụ", "ụ", "Ủ", "ủ", "Ứ", "ứ", "Ừ",
   "ừ", "Ử", "ử", "Ữ", "ữ", "Ự", "ự", "Ỳ", "ỳ", "Ỵ", "ỵ", "Ỷ", "ỷ", "Ỹ", "ỹ", "Ỻ", "ỻ", "Ỽ",
   "ỽ", "Ỿ", "ỿ", "ᾀ", "ᾁ", "ᾂ", "ᾃ", "ᾄ", "ᾅ", "ᾆ", "ᾇ", "ᾈ", "ᾉ", "ᾊ", "ᾋ", "ᾌ", "ᾍ", "ᾎ",
   "ᾏ", "ᾐ", "ᾑ", "ᾒ", "ᾓ", "ᾔ", "ᾕ", "ᾖ", "ᾗ", "ᾘ", "ᾙ", "ᾚ", "ᾛ", "ᾜ", "ᾝ", "ᾞ", "ᾟ", "ᾠ",
   "ᾡ", "ᾢ", "ᾣ", "ᾤ", "ᾥ", "ᾦ", "ᾧ", "ᾨ", "ᾩ", "ᾪ", "ᾫ", "ᾬ", "ᾭ", "ᾮ", "ᾯ", "ᾰ", "ᾱ", "ᾲ",
   "ᾳ", "ᾴ", "ᾶ", "ᾷ", "Ᾰ", "Ᾱ", "Ὰ", "Ά", "ᾼ", "ι", "ῂ", "ῃ", "ῄ", "ῆ", "ῇ", "Ὲ", "Έ", "Ὴ",
   "Ή", "ῌ", "ῐ", "ῑ", "ῒ", "ΐ", "ῖ", "ῗ", "Ῐ", "Ῑ", "Ὶ", "Ί", "ῠ", "ῡ", "ῢ", "ΰ", "ῤ", "ῥ",
   "ῦ", "ῧ", "Ῠ", "Ῡ", "Ὺ", "Ύ", "Ῥ", "ῲ", "ῳ", "ῴ", "ῶ", "ῷ", "Ὸ", "Ό", "Ὼ", "Ώ", "ῼ", "Ↄ",
   "ↄ", "Ⓐ", "Ⓑ", "Ⓒ", "Ⓓ", "Ⓔ", "Ⓕ", "Ⓖ", "Ⓗ", "Ⓘ", "Ⓙ", "Ⓚ", "Ⓛ", "Ⓜ", "Ⓝ", "Ⓞ", "Ⓟ", "Ⓠ",
   "Ⓡ", "Ⓢ", "Ⓣ", "Ⓤ", "Ⓥ", "Ⓦ", "Ⓧ", "Ⓨ", "Ⓩ", "ⓐ", "ⓑ", "ⓒ", "ⓓ", "ⓔ", "ⓕ", "ⓖ", "ⓗ", "ⓘ",
   "ⓙ", "ⓚ", "ⓛ", "ⓜ", "ⓝ", "ⓞ", "ⓟ", "ⓠ", "ⓡ", "ⓢ", "ⓣ", "ⓤ", "ⓥ", "ⓦ", "ⓧ", "ⓨ", "ⓩ", "Ⲁ",
   "ⲁ", "Ⲃ", "ⲃ", "Ⲅ", "ⲅ", "Ⲇ", "ⲇ", "Ⲉ", "ⲉ", "Ⲋ", "ⲋ", "Ⲍ", "ⲍ", "Ⲏ", "ⲏ", "Ⲑ", "ⲑ", "Ⲓ",
   "ⲓ", "Ⲕ", "ⲕ", "Ⲗ", "ⲗ", "Ⲙ", "ⲙ", "Ⲛ", "ⲛ", "Ⲝ", "ⲝ", "Ⲟ", "ⲟ", "Ⲡ", "ⲡ", "Ⲣ", "ⲣ", "Ⲥ",
   "ⲥ", "Ⲧ", "ⲧ", "Ⲩ", "ⲩ", "Ⲫ", "ⲫ", "Ⲭ", "ⲭ", "Ⲯ", "ⲯ", "Ⲱ", "ⲱ", "Ⲳ", "ⲳ", "Ⲵ", "ⲵ", "Ⲷ",
   "ⲷ", "Ⲹ", "ⲹ", "Ⲻ", "ⲻ", "Ⲽ", "ⲽ", "Ⲿ", "ⲿ", "Ⳁ", "ⳁ", "Ⳃ", "ⳃ", "Ⳅ", "ⳅ", "Ⳇ", "ⳇ", "Ⳉ",
   "ⳉ", "Ⳋ", "ⳋ", "Ⳍ", "ⳍ", "Ⳏ", "ⳏ", "Ⳑ", "ⳑ", "Ⳓ", "ⳓ", "Ⳕ", "ⳕ", "Ⳗ", "ⳗ", "Ⳙ", "ⳙ", "Ⳛ",
   "ⳛ", "Ⳝ", "ⳝ", "Ⳟ", "ⳟ", "Ⳡ", "ⳡ", "Ⳣ", "ⳣ", "ⳤ", "Ⳬ", "ⳬ", "Ⳮ", "ⳮ", "Ⳳ", "ⳳ", "Ꚁ", "ꚁ",
   "Ꚃ", "ꚃ", "Ꚅ", "ꚅ", "Ꚇ", "ꚇ", "Ꚉ", "ꚉ", "Ꚋ", "ꚋ", "Ꚍ", "ꚍ", "Ꚏ", "ꚏ", "Ꚑ", "ꚑ", "Ꚓ", "ꚓ",
   "Ꚕ", "ꚕ", "Ꚗ", "ꚗ", "Ꚙ", "ꚙ", "Ꚛ", "ꚛ", "Ꞁ", "ꞁ", "Ꞃ", "ꞃ", "Ꞅ", "ꞅ", "Ꞇ", "ꞇ", "Ꞌ", "ꞌ",
   "Ɥ", "ꞎ", "Ꞑ", "ꞑ", "Ꞓ", "ꞓ", "ꞔ", "ꞕ", "Ꞗ", "ꞗ", "Ꞙ", "ꞙ", "Ꞛ", "ꞛ", "Ꞝ", "ꞝ", "Ꞟ", "ꞟ",
   "Ꞡ", "ꞡ", "Ꞣ", "ꞣ", "Ꞥ", "ꞥ", "Ꞧ", "ꞧ", "Ꞩ", "ꞩ", "Ɦ", "Ɜ", "Ɡ", "Ɬ", "Ɪ", "ꞯ", "Ʞ", "Ʇ",
   "Ʝ", "Ꭓ", "Ꞵ", "ꞵ", "Ꞷ", "ꞷ", "Ꞹ", "ꞹ", "Ꞻ", "ꞻ", "Ꞽ", "ꞽ", "Ꞿ", "ꞿ", "Ꟁ", "ꟁ", "Ꟃ", "ꟃ",
   "Ꞔ", "Ʂ", "Ᶎ", "Ꟈ", "ꟈ", "Ꟊ", "ꟊ", "Ꟑ", "ꟑ", "ꟓ", "ꟕ", "Ꟗ", "ꟗ", "Ꟙ", "ꟙ", "Ꟶ", "ꟶ", "ꟺ",
   "ꮀ", "ꮁ", "ꮂ", "ꮃ", "ꮄ", "ꮅ", "ꮆ", "ꮇ", "ꮈ", "ꮉ", "ꮊ", "ꮋ", "ꮌ", "ꮍ", "ꮎ", "ꮏ", "ꮐ", "ꮑ",
   "ꮒ", "ꮓ", "ꮔ", "ꮕ", "ꮖ", "ꮗ", "ꮘ", "ꮙ", "ꮚ", "ꮛ", "ꮜ", "ꮝ", "ꮞ", "ꮟ", "ꮠ", "ꮡ", "ꮢ", "ꮣ",
   "ꮤ", "ꮥ", "ꮦ", "ꮧ", "ꮨ", "ꮩ", "ꮪ", "ꮫ", "ꮬ", "ꮭ", "ꮮ", "ꮯ", "ꮰ", "ꮱ", "ꮲ", "ꮳ", "ꮴ", "ꮵ",
   "ꮶ", "ꮷ", "ꮸ", "ꮹ", "ꮺ", "ꮻ", "ꮼ", "ꮽ", "ꮾ", "ꮿ", "U+0253", "U+0254", "U+0256", "U+0257",
   "U+0259", "U+025B", "U+025C", "U+0260", "U+0261", "U+0263", "U+0265", "U+0266", "U+0268",
   "U+0269", "U+026A", "U+026C", "U+026F", "U+0272", "U+0275", "U+037B", "U+037C", "U+037D",
   "U+1F70", "U+1F71", "U+1F72", "U+1F73", "U+1F74", "U+1F75", "U+1F76", "U+1F77", "U+1F78",
   "U+1F79", "U+1F7A", "U+1F7B", "U+1F7C", "U+1F7D", "U+2D00", "U+2D01", "U+2D02", "U+2D03",
   "U+2D04", "U+2D05", "U+2D06", "U+2D07", "U+2D08", "U+2D09", "U+2D0A", "U+2D0B", "U+2D0C",
   "U+2D0D", "U+2D0E", "U+2D0F", "U+2D10", "U+2D11", "U+2D12", "U+2D13", "U+2D14", "U+2D15",
   "U+2D16", "U+2D17", "U+2D18", "U+2D19", "U+2D1A", "U+2D1B", "U+2D1C", "U+2D1D", "U+2D1E",
   "U+2D1F", "U+2D20", "U+2D21", "U+2D22", "U+2D23", "U+2D24", "U+2D25", "U+2D27", "U+2D2D",
   "U+AB53", "U+AB70", "U+AB71", "U+AB72", "U+AB73", "U+AB74", "U+AB75", "U+AB76", "U+AB77",
   "U+AB78", "U+AB79", "U+AB7A", "U+AB7B", "U+AB7C", "U+AB7D", "U+AB7E", "U+AB7F"}

\* The case-ignorable characters (Unicode 14.0) among the characters a string
\* of this module can hold.
CaseIgnorable ==
  {"'", ".", ":", "^", "¨", "­", "¯", "´", "·", "¸", "ʰ", "ʱ", "ʲ", "ʳ", "ʴ", "ʵ", "ʶ", "ʷ",
   "ʸ", "ʹ", "ʺ", "ʻ", "ʼ", "ʽ", "ʾ", "ʿ", "ˀ", "ˁ", "˂", "˃", "˄", "˅", "ˆ", "ˇ", "ˈ", "ˉ",
   "ˊ", "ˋ", "ˌ", "ˍ", "ˎ", "ˏ", "ː", "ˑ", "˒", "˓", "˔", "˕", "˖", "˗", "˘", "˙", "˚", "˛",
   "˜", "˝", "˞", "˟", "ˠ", "ˡ", "ˢ", "ˣ", "ˤ", "˥", "˦", "˧", "˨", "˩", "˪", "˫", "ˬ", "˭",
   "ˮ", "˯", "˰", "˱", "˲", "˳", "˴", "˵", "˶", "˷", "˸", "˹", "˺", "˻", "˼", "˽", "˾", "˿",
   "΄", "΅", "·", "҃", "҄", "҅", "҆", "҇", "҈", "҉", "֑", "֒", "֓", "֔", "֕", "֖", "֗", "֘",
   "֙", "֚", "֛", "֜", "֝", "֞", "֟", "֠", "֡", "֢", "֣", "֤", "֥", "֦", "֧", "֨", "֩", "֪",
   "֫", "֬", "֭", "֮", "֯", "ְ", "ֱ", "ֲ", "ֳ", "ִ", "ֵ", "ֶ", "ַ", "ָ", "ֹ", "ֺ", "ֻ", "ּ",
   "ֽ", "ֿ", "ׁ", "ׂ", "ׄ", "ׅ", "ׇ", "״", "ۖ", "ۗ", "ۘ", "ۙ", "ۚ", "ۛ", "ۜ", "۝", "۟", "۠",
   "ۡ", "ۢ", "ۣ", "ۤ", "ۥ", "ۦ", "ۧ", "ۨ", "۪", "۫", "۬", "ۭ", "ަ", "ާ", "ި", "ީ", "ު", "ޫ",
   "ެ", "ޭ", "ޮ", "ޯ", "ް", "߫", "߬", "߭", "߮", "߯", "߰", "߱", "߲", "߳", "ߴ", "ߵ", "ߺ", "߽",
   "࢈", "࢐", "࢑", "࢘", "࢙", "࢚", "࢛", "࢜", "࢝", "࢞", "࢟", "ࣉ", "࣊", "࣋", "࣌", "࣍", "࣎", "࣏",
   "࣐", "࣑", "࣒", "࣓", "ࣔ", "ࣕ", "ࣖ", "ࣗ", "ࣘ", "ࣙ", "ࣚ", "ࣛ", "ࣜ", "ࣝ", "ࣞ", "ࣟ", "࣠", "࣡",
   "࣢", "ࣣ", "ࣤ", "ࣥ", "ࣦ", "ࣧ", "ࣨ", "ࣩ", "࣪", "࣫", "࣬", "࣭", "࣮", "࣯", "ࣰ", "ࣱ", "ࣲ", "ࣳ",
   "ࣴ", "ࣵ", "ࣶ", "ࣷ", "ࣸ", "ࣹ", "ࣺ", "ࣻ", "ࣼ", "ࣽ", "ࣾ", "ࣿ", "ঁ", "়", "ু", "ূ", "ৃ", "ৄ",
   "্", "ৢ", "ৣ", "৾", "ઁ", "ં", "઼", "ુ", "ૂ", "ૃ", "ૄ", "ૅ", "ે", "ૈ", "્", "ૢ", "ૣ", "ૺ",
   "ૻ", "ૼ", "૽", "૾", "૿", "ஂ", "ீ", "்", "ಁ", "಼", "ಿ", "ೆ", "ೌ", "್", "ೢ", "ೣ", "ඁ", "්",
   "ි", "ී", "ු", "ූ", "ັ", "ິ", "ີ", "ຶ", "ື", "ຸ", "ູ", "຺", "ົ", "ຼ", "ໆ", "່", "້", "໊",
   "໋", "໌", "ໍ", "ྀ", "ཱྀ", "ྂ", "ྃ", "྄", "྆", "྇", "ྍ", "ྎ", "ྏ", "ྐ", "ྑ", "ྒ", "ྒྷ", "ྔ",
   "ྕ", "ྖ", "ྗ", "ྙ", "ྚ", "ྛ", "ྜ", "ྜྷ", "ྞ", "ྟ", "ྠ", "ྡ", "ྡྷ", "ྣ", "ྤ", "ྥ", "ྦ", "ྦྷ",
   "ྨ", "ྩ", "ྪ", "ྫ", "ྫྷ", "ྭ", "ྮ", "ྯ", "ྰ", "ྱ", "ྲ", "ླ", "ྴ", "ྵ", "ྶ", "ྷ", "ྸ", "ྐྵ",
   "ྺ", "ྻ", "ྼ", "࿆", "ႂ", "ႅ", "ႆ", "ႍ", "ႝ", "ჼ", "឴", "឵", "ិ", "ី", "ឹ", "ឺ", "ុ", "ូ",
   "ួ", "ំ", "៉", "៊", "់", "៌", "៍", "៎", "៏", "័", "៑", "្", "៓", "ៗ", "៝", "ᢅ", "ᢆ", "ᢩ",
   "ᪧ", "᪰", "᪱", "᪲", "᪳", "᪴", "᪵", "᪶", "᪷", "᪸", "᪹", "᪺", "᪻", "᪼", "᪽", "᪾", "ᪿ", "ᫀ",
   "᫁", "᫂", "᫃", "᫄", "᫅", "᫆", "᫇", "᫈", "᫉", "᫊", "᫋", "ᫌ", "ᫍ", "ᫎ", "ᮀ", "ᮁ", "ᮢ", "ᮣ",
   "ᮤ", "ᮥ", "ᮨ", "ᮩ", "᮫", "ᮬ", "ᮭ", "᯦", "ᯨ", "ᯩ", "ᯭ", "ᯯ", "ᯰ", "ᯱ", "᳐", "᳑", "᳒", "᳔",
   "᳕", "᳖", "᳗", "᳘", "᳙", "᳚", "᳛", "᳜", "᳝", "᳞", "᳟", "᳠", "᳢", "᳣", "᳤", "᳥", "᳦", "᳧",
   "᳨", "᳭", "᳴", "᳸", "᳹", "ᶛ", "ᶜ", "ᶝ", "ᶞ", "ᶟ", "ᶠ", "ᶡ", "ᶢ", "ᶣ", "ᶤ", "ᶥ", "ᶦ", "ᶧ",
   "ᶨ", "ᶩ", "ᶪ", "ᶫ", "ᶬ", "ᶭ", "ᶮ", "ᶯ", "ᶰ", "ᶱ", "ᶲ", "ᶳ", "ᶴ", "ᶵ", "ᶶ", "ᶷ", "ᶸ", "ᶹ",
   "ᶺ", "ᶻ", "ᶼ", "ᶽ", "ᶾ", "ᶿ", "᷀", "᷁", "᷂", "᷃", "᷄", "᷅", "᷆", "᷇", "᷈", "᷉", "᷊", "᷋",
   "᷌", "᷍", "᷎", "᷏", "᷐", "᷑", "᷒", "ᷓ", "ᷔ", "ᷕ", "ᷖ", "ᷗ", "ᷘ", "ᷙ", "ᷚ", "ᷛ", "ᷜ", "ᷝ",
   "ᷞ", "ᷟ", "ᷠ", "ᷡ", "ᷢ", "ᷣ", "ᷤ", "ᷥ", "ᷦ", "ᷧ", "ᷨ", "ᷩ", "ᷪ", "ᷫ", "ᷬ", "ᷭ", "ᷮ", "ᷯ",
   "ᷰ", "ᷱ", "ᷲ", "ᷳ", "ᷴ", "᷵", "᷶", "᷷", "᷸", "᷹", "᷺", "᷻", "᷼", "᷽", "᷾", "᷿", "᾽", "᾿",
   "῀", "῁", "῍", "῎", "῏", "῝", "῞", "῟", "῭", "΅", "`", "´", "῾", "ₐ", "ₑ", "ₒ", "ₓ", "ₔ",
   "ₕ", "ₖ", "ₗ", "ₘ", "ₙ", "ₚ", "ₛ", "ₜ", "⃐", "⃑", "⃒", "⃓", "⃔", "⃕", "⃖", "⃗", "⃘", "⃙",
   "⃚", "⃛", "⃜", "⃝", "⃞", "⃟", "⃠", "⃡", "⃢", "⃣", "⃤", "⃥", "⃦", "⃧", "⃨", "⃩", "⃪", "⃫",
   "⃬", "⃭", "⃮", "⃯", "⃰", "⳯", "⳰", "⳱", "ⷠ", "ⷡ", "ⷢ", "ⷣ", "ⷤ", "ⷥ", "ⷦ", "ⷧ", "ⷨ", "ⷩ",
   "ⷪ", "ⷫ", "ⷬ", "ⷭ", "ⷮ", "ⷯ", "ⷰ", "ⷱ", "ⷲ", "ⷳ", "ⷴ", "ⷵ", "ⷶ", "ⷷ", "ⷸ", "ⷹ", "ⷺ", "ⷻ",
   "ⷼ", "ⷽ", "ⷾ", "ⷿ", "゙", "゚", "゛", "゜", "ゝ", "ゞ", "ー", "ヽ", "ヾ", "ꓸ", "ꓹ", "ꓺ", "ꓻ", "ꓼ",
   "ꓽ", "ꚜ", "ꚝ", "ꚞ", "ꚟ", "꛰", "꛱", "ꞈ", "꞉", "꞊", "ꟲ", "ꟳ", "ꟴ", "ꟸ", "ꟹ", "꣄", "ꣅ", "꣠",
   "꣡", "꣢", "꣣", "꣤", "꣥", "꣦", "꣧", "꣨", "꣩", "꣪", "꣫", "꣬", "꣭", "꣮", "꣯", "꣰", "꣱", "ꣿ",
   "ꦀ", "ꦁ", "ꦂ", "꦳", "ꦶ", "ꦷ", "ꦸ", "ꦹ", "ꦼ", "ꦽ", "ꧏ", "ꧥ", "ꧦ", "ꪰ", "ꪲ", "ꪳ", "ꪴ", "ꪷ",
   "ꪸ", "ꪾ", "꪿", "꫁", "ꫝ", "ꫬ", "ꫭ", "ꫳ", "ꫴ", "꫶", "ꯥ", "ꯨ", "꯭", "﮲", "﮳", "﮴", "﮵", "﮶",
   "﮷", "﮸", "﮹", "﮺", "﮻", "﮼", "﮽", "﮾", "﮿", "﯀", "﯁", "﯂", "﻿", "ﾞ", "ﾟ", "￣", "￹", "￺", "￻"}

\* The decimal digits (category Nd, Unicode 14.0) other than 0 to 9 among the
\* characters a string of this module can hold, each with the digit 0 to 9 it
\* stands for: a row holds the digits of one script from zero to nine.
DecimalDigit ==
  Only({f @@ f
        : f \in {[c \in UNION {Range(r) : r \in rows} |->
                    <<"0", "1", "2", "3", "4", "5", "6", "7", "8", "9">>[
                      CHOOSE i \in 1..10 : \E r \in rows : r[i] = c]]
                 : rows \in {{
    <<"۰", "۱", "۲", "۳", "۴", "۵", "۶", "۷", "۸", "۹">>,
    <<"߀", "߁", "߂", "߃", "߄", "߅", "߆", "߇", "߈", "߉">>,
    <<"০", "১", "২", "৩", "৪", "৫", "৬", "৭", "৮", "৯">>,
    <<"૦", "૧", "૨", "૩", "૪", "૫", "૬", "૭", "૮", "૯">>,
    <<"௦", "௧", "௨", "௩", "௪", "௫", "௬", "௭", "௮", "௯">>,
    <<"೦", "೧", "೨", "೩", "೪", "೫", "೬", "೭", "೮", "೯">>,
    <<"෦", "෧", "෨", "෩", "෪", "෫", "෬", "෭", "෮", "෯">>,
    <<"໐", "໑", "໒", "໓", "໔", "໕", "໖", "໗", "໘", "໙">>,
    <<"႐", "႑", "႒", "႓", "႔", "႕", "႖", "႗", "႘", "႙">>,
    <<"០", "១", "២", "៣", "៤", "៥", "៦", "៧", "៨", "៩">>,
    <<"᧐", "᧑", "᧒", "᧓", "᧔", "᧕", "᧖", "᧗", "᧘", "᧙">>,
    <<"᪀", "᪁", "᪂", "᪃", "᪄", "᪅", "᪆", "᪇", "᪈", "᪉">>,
    <<"᪐", "᪑", "᪒", "᪓", "᪔", "᪕", "᪖", "᪗", "᪘", "᪙">>,
    <<"᮰", "᮱", "᮲", "᮳", "᮴", "᮵", "᮶", "᮷", "᮸", "᮹">>,
    <<"꣐", "꣑", "꣒", "꣓", "꣔", "꣕", "꣖", "꣗", "꣘", "꣙">>,
    <<"꧐", "꧑", "꧒", "꧓", "꧔", "꧕", "꧖", "꧗", "꧘", "꧙">>,
    <<"꧰", "꧱", "꧲", "꧳", "꧴", "꧵", "꧶", "꧷", "꧸", "꧹">>,
    <<"꯰", "꯱", "꯲", "꯳", "꯴", "꯵", "꯶", "꯷", "꯸", "꯹">>}}}})

\* str.lower(): each character by the table, but the capital sigma becomes the
\* final sigma when a cased letter stands before it and none after it, the
\* case-ignorable characters in between passed over
Lower(s) ==
  LET FinalSigma(i) ==
        Only({/\ before # {}
              /\ s[CHOOSE j \in before : \A k \in before : k <= j] \in Cased
              /\ after # {} => s[CHOOSE j \in after : \A k \in after : j <= k] \notin Cased
              : before \in {{j \in 1..(i - 1) : s[j] \notin CaseIgnorable}},
                after \in {{j \in (i + 1)..Len(s) : s[j] \notin CaseIgnorable}}})
  IN [i \in 1..Len(s) |->
        IF s[i] \notin DOMAIN UpperToLower THEN s[i]
        ELSE IF s[i] = "Σ" /\ FinalSigma(i) THEN "ς"
        ELSE UpperToLower[s[i]]]
-----------------------------------------------------------------------------
(* Python float values: IEEE 754 binary64, rounded to nearest, ties to     *)
(* even.  A finite float is <<sign, m, e>> and stands for sign * m * 2^e:  *)
(* sign is 1 or -1, e an integer and m an odd natural number, or zero with *)
(* e = 0.  A natural number is the list of its digits in base 2^15, the    *)
(* least significant first and the most significant not zero (zero is the  *)
(* empty list), so that m is not bounded by the integers of the checker.   *)
(* The other floats are Inf(sign) and NaN.                                 *)

\* The definitions below take their arguments through Only, to compute each
\* once.

Base == 32768

NaN == <<"nan">>
Inf(sign) == <<"inf", sign>>

\* the number of binary digits of the natural number a
BigBits(a0) ==
  LET \* the number of binary digits of 0 to 15, and of a digit in base 2^15
      Low == <<0, 1, 2, 2, 3, 3, 3, 3, 4, 4, 4, 4, 4, 4, 4, 4>>
      Bits(n) == IF n >= 4096 THEN 12 + Low[n \div 4096 + 1]
                 ELSE IF n >= 256 THEN 8 + Low[n \div 256 + 1]
                 ELSE IF n >= 16 THEN 4 + Low[n \div 16 + 1]
                 ELSE Low[n + 1]
  IN Only({IF Len(a) = 0 THEN 0 ELSE 15 * (Len(a) - 1) + Bits(a[Len(a)]) : a \in {a0}})

\* -1, 0 or 1 as a < b, a = b or a > b
BigCmp(a0, b0) ==
  Only({IF Len(a) # Len(b) THEN (IF Len(a) < Len(b) THEN -1 ELSE 1)
        ELSE IF a = b THEN 0
        ELSE Only({IF a[k] < b[k] THEN -1 ELSE 1
                   : k \in {CHOOSE i \in 1..Len(a) :
                              a[i] # b[i] /\ \A j \in (i + 1)..Len(a) : a[j] = b[j]}})
        : a \in {a0}, b \in {b0}})

\* a * k + s * b for 0 <= k < Base and s one of 1, 0 and -1, where the result
\* is not negative.  Span(lo, hi, c) is the digits lo to hi of the result and
\* the carry out of them, for the carry c into them.
BigLin(a0, k0, b0, s0) ==
  Only({LET RECURSIVE Span(_, _, _)
            Span(lo0, hi0, c0) ==
              Only({IF lo = hi
                      THEN Only({<<<<x % Base>>, x \div Base>>
                                 : x \in {(IF lo <= Len(a) THEN a[lo] * k ELSE 0)
                                            + s * (IF lo <= Len(b) THEN b[lo] ELSE 0) + c}})
                    ELSE Only({Only({<<low[1] \o high[1], high[2]>>
                                     : high \in {Span((lo + hi) \div 2 + 1, hi, low[2])}})
                               : low \in {Span(lo, (lo + hi) \div 2, c)}})
                    : lo \in {lo0}, hi \in {hi0}, c \in {c0}})
        IN Only({IF n = 0 THEN <<>>
                 ELSE Only({Only({SubSeq(d, 1, Cardinality({i \in 1..Len(d) :
                                                      \E j \in i..Len(d) : d[j] # 0}))
                                  : d \in {r[1] \o <<r[2]>>}})
                            : r \in {Span(1, n, 0)}})
                 : n \in {IF Len(a) >= Len(b) THEN Len(a) ELSE Len(b)}})
        : a \in {a0}, k \in {k0}, b \in {b0}, s \in {s0}})

\* <<a \div k, a % k>> for 0 < k < Base.  Span(lo, hi, r) is the digits lo to
\* hi of the quotient and the remainder left by them, for the remainder r of
\* the digits above them.
BigDiv(a0, k0) ==
  Only({LET RECURSIVE Span(_, _, _)
            Span(lo0, hi0, r0) ==
              Only({IF lo = hi
                      THEN Only({<<<<x \div k>>, x % k>> : x \in {r * Base + a[lo]}})
                    ELSE Only({Only({<<low[1] \o high[1], low[2]>>
                                     : low \in {Span(lo, (lo + hi) \div 2, high[2])}})
                               : high \in {Span((lo + hi) \div 2 + 1, hi, r)}})
                    : lo \in {lo0}, hi \in {hi0}, r \in {r0}})
        IN IF Len(a) = 0 THEN <<<<>>, 0>>
           ELSE Only({<<IF qr[1][Len(a)] = 0 THEN SubSeq(qr[1], 1, Len(a) - 1) ELSE qr[1], qr[2]>>
                      : qr \in {Span(1, Len(a), 0)}})
        : a \in {a0}, k \in {k0}})

\* a * 2^k
BigShl(a0, k0) ==
  LET RECURSIVE Pow2(_)
      Pow2(n0) == Only({IF n = 0 THEN 1 ELSE 2 * Pow2(n - 1) : n \in {n0}})
  IN Only({IF Len(a) = 0 \/ k = 0 THEN a
           ELSE [i \in 1..(k \div 15) |-> 0] \o BigLin(a, Pow2(k % 15), <<>>, 0)
           : a \in {a0}, k \in {k0}})

\* The float nearest to sign * (n + d) * 2^e, where 0 <= d < 1 and d > 0 iff
\* sticky: the result keeps 53 binary digits, fewer below 2^-1022 (subnormal),
\* a tie goes to the even neighbour, and 2^1024 or more is infinite.  With
\* sticky, n has more than 54 binary digits.
Round(sign0, n0, e0, sticky0) ==
  LET RECURSIVE Pow2(_)
      Pow2(i0) == Only({IF i = 0 THEN 1 ELSE 2 * Pow2(i - 1) : i \in {i0}})
      \* a \div 2^i
      Shr(a0, i0) ==
        Only({IF i \div 15 >= Len(a) THEN <<>>
              ELSE BigDiv(SubSeq(a, i \div 15 + 1, Len(a)), Pow2(i % 15))[1]
              : a \in {a0}, i \in {i0}})
      \* the number of binary zeros at the end of i, and of a
      RECURSIVE Zeros(_)
      Zeros(i0) == Only({IF i % 2 = 1 THEN 0 ELSE 1 + Zeros(i \div 2) : i \in {i0}})
      TrailingZeros(a0) ==
        Only({15 * (k - 1) + Zeros(a0[k])
              : k \in {CHOOSE i \in 1..Len(a0) : a0[i] # 0 /\ \A j \in 1..(i - 1) : a0[j] = 0}})
      \* the exponent of the last binary digit kept
      Last(n, e) ==
        Only({IF e + bits - 53 > -1074 THEN e + bits - 53 ELSE -1074 : bits \in {BigBits(n)}})
      \* n \div 2^k rounded, for k > 0
      Nearest(n, k, sticky) ==
        Only({Only({Only({IF half > 0 \/ (half = 0 /\ (sticky \/ (Len(kept) > 0 /\ kept[1] % 2 = 1)))
                            THEN BigLin(kept, 1, <<1>>, 1) ELSE kept
                          : half \in {BigCmp(rest, BigShl(<<1>>, k - 1))}})
                    : rest \in {BigLin(n, 1, BigShl(kept, k), -1)}})
              : kept \in {Shr(n, k)}})
      \* the float of sign * m * 2^x
      Pack(sign, m, x) ==
        IF Len(m) = 0 THEN <<sign, <<>>, 0>>
        ELSE IF x + BigBits(m) > 1024 THEN Inf(sign)
        ELSE Only({<<sign, Shr(m, z), x + z>> : z \in {TrailingZeros(m)}})
  IN Only({Only({IF last <= e THEN Pack(sign, n, e)
                 ELSE Only({Pack(sign, m, last) : m \in {Nearest(n, last - e, sticky)}})
                 : last \in {Last(n, e)}})
           : sign \in {sign0}, n \in {n0}, e \in {e0}, sticky \in {sticky0}})

\* float(n) / d for integers n and 0 < d < Base, correctly rounded: the value
\* of the literal n/d
FloatOf(n0, d0) ==
  LET RECURSIVE BigOf(_)
      BigOf(i0) ==
        Only({IF i = 0 THEN <<>> ELSE <<i % Base>> \o BigOf(i \div Base) : i \in {i0}})
  IN Only({Only({Round(IF n < 0 THEN -1 ELSE 1, qr[1], -75, qr[2] # 0)
                 : qr \in {BigDiv(BigShl(BigOf(IF n < 0 THEN -n ELSE n), 75), d)}})
           : n \in {n0}, d \in {d0}})

\* the float literals of the code and 100.0, computed once (f @@ f is f)
Literals ==
  Only({f @@ f
        : f \in {[p \in {<<0, 1>>, <<1, 1>>, <<2, 1>>, <<3, 1>>, <<4, 1>>, <<5, 2>>, <<3, 10>>,
                         <<8, 10>>, <<9, 10>>, <<85, 100>>, <<100, 1>>}
                   |-> FloatOf(p[1], p[2])]}})

\* the float literal n/d
Q(n, d) ==
  Only({IF <<n, d>> \in DOMAIN literals THEN literals[<<n, d>>] ELSE FloatOf(n, d)
        : literals \in {Literals}})

\* a * b; nothing is computed for b = 1.0, where the code has no statement
QMul(a0, b0) ==
  LET RECURSIVE BigMul(_, _)
      BigMul(u0, v0) ==
        Only({IF Len(u) = 0 \/ Len(v) = 0 THEN <<>>
              ELSE IF Len(v) = 1 THEN BigLin(u, v[1], <<>>, 0)
              ELSE BigLin(u, v[1], <<0>> \o BigMul(u, Tail(v)), 1)
              : u \in {u0}, v \in {v0}})
      Finite(x) == Len(x) = 3
      SignOf(x) == IF Finite(x) THEN x[1] ELSE x[2]
  IN Only({IF a = NaN \/ b = NaN THEN NaN
           ELSE IF ~Finite(a) \/ ~Finite(b)
             THEN (IF (Finite(a) /\ Len(a[2]) = 0) \/ (Finite(b) /\ Len(b[2]) = 0) THEN NaN
                   ELSE Inf(SignOf(a) * SignOf(b)))
           ELSE IF b = <<1, <<1>>, 0>> THEN a
           ELSE Round(a[1] * b[1], BigMul(a[2], b[2]), a[3] + b[3], FALSE)
           : a \in {a0}, b \in {b0}})

\* a < b
QLt(a0, b0) ==
  LET Finite(x) == Len(x) = 3
      \* the sign of a float: 1, -1, or 0 for both zeros
      Sign(x) == IF ~Finite(x) THEN x[2] ELSE IF Len(x[2]) = 0 THEN 0 ELSE x[1]
      \* the highest binary digit of a finite float
      Top(x) == x[3] + BigBits(x[2])
      \* -1, 0 or 1 as |a| < |b|, |a| = |b| or |a| > |b|, for floats not zero
      CmpAbs(a, b) ==
        IF ~Finite(a) \/ ~Finite(b)
          THEN (IF Finite(a) THEN -1 ELSE IF Finite(b) THEN 1 ELSE 0)
        ELSE IF a = b THEN 0
        ELSE Only({IF top_a # top_b THEN (IF top_a < top_b THEN -1 ELSE 1)
                   ELSE IF a[3] >= b[3] THEN BigCmp(BigShl(a[2], a[3] - b[3]), b[2])
                   ELSE BigCmp(a[2], BigShl(b[2], b[3] - a[3]))
                   : top_a \in {Top(a)}, top_b \in {Top(b)}})
  IN Only({/\ a # NaN /\ b # NaN
           /\ Only({IF sign_a # sign_b THEN sign_a < sign_b
                    ELSE IF sign_a = 0 THEN FALSE
                    ELSE sign_a * CmpAbs(a, b) < 0
                    : sign_a \in {Sign(a)}, sign_b \in {Sign(b)}})
           : a \in {a0}, b \in {b0}})

\* a <= b
QLe(a0, b0) == Only({a # NaN /\ b # NaN /\ ~QLt(b, a) : a \in {a0}, b \in {b0}})

\* max(a, b) and min(a, b): the first argument unless the second is beyond it
QMax(a0, b0) == Only({IF QLt(a, b) THEN b ELSE a : a \in {a0}, b \in {b0}})
QMin(a0, b0) == Only({IF QLt(b, a) THEN b ELSE a : a \in {a0}, b \in {b0}})

\* float(s) of a str
Digits == {"0","1","2","3","4","5","6","7","8","9"}
DigitVal(c) ==
  CASE c = "0" -> 0 [] c = "1" -> 1 [] c = "2" -> 2 [] c = "3" -> 3 [] c = "4" -> 4
    [] c = "5" -> 5 [] c = "6" -> 6 [] c = "7" -> 7 [] c = "8" -> 8 [] c = "9" -> 9

\* the number of the decimal digits ds when it is below 10^6, else a number
\* of 10^6 or more (an exponent)
RECURSIVE DecVal(_)
DecVal(ds0) ==
  Only({IF Len(ds) = 0 THEN 0
        ELSE Only({IF front >= 1000000 THEN front ELSE 10 * front + DigitVal(ds[Len(ds)])
                   : front \in {DecVal(SubSeq(ds, 1, Len(ds) - 1))}})
        : ds \in {ds0}})

\* the parts of the text of a float: the text without the whitespace around
\* it; its sign; the rest without the underscores, each of which stands
\* between two digits; the mantissa's digits before and after the point, and
\* the exponent's sign and digits after the first e or E.  float() first
\* turns each whitespace beyond ASCII into a space (ToAscii; of these a str of
\* this module can hold U+0085, U+00A0 and U+1680) and each decimal digit into
\* the digit 0 to 9 it stands for, and then passes over the whitespace of
\* ASCII, tab to carriage return and the space, at both ends.
FloatParts(s0) ==
  LET ToAscii(c) ==
        IF c \in {"", " ", " "} THEN " "
        ELSE IF c \in DOMAIN DecimalDigit THEN DecimalDigit[c] ELSE c
      Whitespace == {"\t", "\n", "", "\f", "\r", " "}
      \* the letters of inf, infinity and nan in lower case
      Fold(c) == IF c \in {"A", "F", "I", "N", "T", "Y"} THEN UpperToLower[c] ELSE c
      \* s without the whitespace around it
      Strip(s) ==
        Only({IF inner = {} THEN <<>>
              ELSE SubSeq(s, CHOOSE i \in inner : \A j \in inner : i <= j,
                             CHOOSE i \in inner : \A j \in inner : j <= i)
              : inner \in {{i \in 1..Len(s) : s[i] \notin Whitespace}}})
      Signed(t) == Len(t) > 0 /\ t[1] \in {"+", "-"}
      \* the index of the first e or E of v, or Len(v) + 1
      ExpAt(v) ==
        Only({IF es = {} THEN Len(v) + 1 ELSE CHOOSE i \in es : \A j \in es : i <= j
              : es \in {{i \in 1..Len(v) : v[i] \in {"e", "E"}}}})
      \* the parts of the mantissa mant and of the exponent ex
      Parts(t, v, mant, ex) ==
        Only({[underscores |-> \A i \in 1..Len(t) :
                                 t[i] = "_" => /\ 1 < i /\ i < Len(t)
                                               /\ t[i - 1] \in Digits /\ t[i + 1] \in Digits,
               negative |-> Signed(t) /\ t[1] = "-",
               word |-> [i \in 1..Len(v) |-> Fold(v[i])],
               int |-> SubSeq(mant, 1, dot - 1),
               frac |-> SubSeq(mant, dot + 1, Len(mant)),
               points |-> Cardinality(dots),
               has_exp |-> Len(mant) < Len(v),
               exp_negative |-> Signed(ex) /\ ex[1] = "-",
               exp |-> IF Signed(ex) THEN Tail(ex) ELSE ex]
              : <<dots, dot>> \in
                  {Only({<<ds, IF ds = {} THEN Len(mant) + 1 ELSE CHOOSE i \in ds : TRUE>>
                         : ds \in {{i \in 1..Len(mant) : mant[i] = "."}}})}})
  IN Only({Only({Only({Parts(t, v, SubSeq(v, 1, e1 - 1), SubSeq(v, e1 + 1, Len(v)))
                       : e1 \in {ExpAt(v)}})
                 : v \in {SelectSeq(IF Signed(t) THEN Tail(t) ELSE t, LAMBDA c : c # "_")}})
           : t \in {Strip([i \in 1..Len(s0) |-> ToAscii(s0[i])])}})

\* float(s) does not raise ValueError: s is, within whitespace, a signed inf,
\* infinity or nan in any case, or a signed decimal number with digits, at
\* most one point and an optional exponent
IsFloatLiteral(s) ==
  LET AllDigits(ds) == \A i \in 1..Len(ds) : ds[i] \in Digits
  IN Only({/\ p.underscores
           /\ \/ p.word \in {<<"i", "n", "f">>, <<"i", "n", "f", "i", "n", "i", "t", "y">>, <<"n", "a", "n">>}
              \/ /\ p.points <= 1
                 /\ AllDigits(p.int) /\ AllDigits(p.frac)
                 /\ Len(p.int) + Len(p.frac) > 0
                 /\ p.has_exp => (Len(p.exp) > 0 /\ AllDigits(p.exp))
           : p \in {FloatParts(s)}})

\* float(s) for s with IsFloatLiteral(s): the float nearest to the decimal
\* number m * 10^x.  A number of 10^310 or more is infinite and one below
\* 10^-330 is zero.
ParseFloat(s) ==
  LET \* the natural number of the decimal digits ds, after acc: four digits
      \* are taken at a time, fewer at first
      RECURSIVE DecBig(_, _)
      DecBig(ds0, acc0) ==
        Only({IF Len(ds) = 0 THEN acc
              ELSE Only({Only({DecBig(SubSeq(ds, n + 1, Len(ds)),
                                      BigLin(acc, <<10, 100, 1000, 10000>>[n],
                                             IF v = 0 THEN <<>> ELSE <<v>>, 1))
                               : v \in {DecVal(SubSeq(ds, 1, n))}})
                         : n \in {IF Len(ds) % 4 = 0 THEN 4 ELSE Len(ds) % 4}})
              : ds \in {ds0}, acc \in {acc0}})
      \* n * 10^k
      RECURSIVE MulPow10(_, _)
      MulPow10(n0, k0) ==
        Only({IF k = 0 THEN n
              ELSE IF k <= 4 THEN BigLin(n, <<10, 100, 1000, 10000>>[k], <<>>, 0)
              ELSE MulPow10(MulPow10(n, k \div 2), k - k \div 2)
              : n \in {n0}, k \in {k0}})
      \* <<n \div 10^k, whether a remainder was left>>
      RECURSIVE DivPow10(_, _, _)
      DivPow10(n0, k0, sticky0) ==
        Only({IF k = 0 THEN <<n, sticky>>
              ELSE IF k <= 4
                THEN Only({<<qr[1], sticky \/ qr[2] # 0>>
                           : qr \in {BigDiv(n, <<10, 100, 1000, 10000>>[k])}})
              ELSE Only({DivPow10(half[1], k - k \div 2, half[2])
                         : half \in {DivPow10(n, k \div 2, sticky)}})
              : n \in {n0}, k \in {k0}, sticky \in {sticky0}})
      \* the float of sign * m * 10^x for the digits ds of m, not all zero
      Number(sign, ds, m, x) ==
        Only({IF digits + x > 310 THEN Inf(sign)
              ELSE IF digits + x < -330 THEN <<sign, <<>>, 0>>
              ELSE IF x >= 0 THEN Round(sign, MulPow10(m, x), 0, FALSE)
              ELSE Only({Round(sign, qs[1], 4 * x - 60, qs[2])
                         : qs \in {DivPow10(BigShl(m, 60 - 4 * x), -x, FALSE)}})
              : digits \in {Cardinality({i \in 1..Len(ds) : \E j \in 1..i : ds[j] # "0"})}})
  IN Only({Only({IF p.word = <<"n", "a", "n">> THEN NaN
                 ELSE IF p.word \in {<<"i", "n", "f">>, <<"i", "n", "f", "i", "n", "i", "t", "y">>} THEN Inf(sign)
                 ELSE Only({IF Len(m) = 0 THEN <<sign, <<>>, 0>>
                            ELSE Number(sign, p.int \o p.frac, m, x)
                            : m \in {DecBig(p.int \o p.frac, <<>>)},
                              x \in {(IF p.exp_negative THEN -1 ELSE 1) * DecVal(p.exp)
                                       - Len(p.frac)}})
                 : sign \in {IF p.negative THEN -1 ELSE 1}})
           : p \in {FloatParts(s)}})

\* str(n) for n >= 0
RECURSIVE IntToStr(_)
IntToStr(n) ==
  LET DigitChar(d) == <<"0", "1", "2", "3", "4", "5", "6", "7", "8", "9">>[d + 1]
  IN IF n < 10 THEN <<DigitChar(n)>> ELSE IntToStr(n \div 10) \o <<DigitChar(n % 10)>>

-----------------------------------------------------------------------------
(* rapidfuzz.fuzz.partial_ratio(s1, s2) / 100, as called by search_terms.  *)


\* The length of the longest common subsequence.  LcsRow is one row of the
\* table: prev is the row of the previous character of s1.
Lcs(s1, s2) ==
  LET RECURSIVE LcsRow(_, _, _, _, _)
      LcsRow(c, prev, j, left, acc) ==
        IF j > Len(s2) THEN acc
        ELSE Only({LcsRow(c, prev, j + 1, v, Append(acc, v))
                   : v \in {IF c = s2[j] THEN (IF j = 1 THEN 0 ELSE prev[j - 1]) + 1
                            ELSE IF prev[j] >= left THEN prev[j] ELSE left}})
      RECURSIVE LcsFrom(_, _)
      LcsFrom(i, prev) ==
        IF i > Len(s1) THEN (IF Len(s2) = 0 THEN 0 ELSE prev[Len(s2)])
        ELSE Only({LcsFrom(i + 1, row) : row \in {LcsRow(s1[i], prev, 1, 0, <<>>)}})
  IN LcsFrom(1, [j \in 1..Len(s2) |-> 0])

\* Indel similarity of s1 and s2, as the pair <<2 * lcs, len1 + len2>> of
\* integers: the indel distance is their difference and the maximum the second
IndelSimilarity(s1, s2) ==
  IF Len(s1) + Len(s2) = 0 THEN <<1, 1>>
  ELSE <<2 * Lcs(s1, s2), Len(s1) + Len(s2)>>

\* _partial_ratio_impl for Len(s1) <= Len(s2): the best window's similarity.
\* The windows are the substrings of the longer string s2 that the shorter s1
\* is aligned with: proper prefixes shorter than s1, every window of s1's
\* length, and the suffixes.
PartialRatioImpl(s1, s2) ==
  LET PartialWindows ==
        {SubSeq(s2, 1, i) : i \in 1..(Len(s1) - 1)}
          \cup {SubSeq(s2, i + 1, i + Len(s1)) : i \in 0..(Len(s2) - Len(s1))}
          \cup {SubSeq(s2, i + 1, Len(s2)) : i \in (Len(s2) - Len(s1))..(Len(s2) - 1)}
  IN Only({CHOOSE r \in scores : \A u \in scores : u[1] * r[2] <= r[1] * u[2]
           : scores \in {{IndelSimilarity(s1, w) : w \in PartialWindows} \cup {<<0, 1>>}}})

\* The float of partial_ratio(...) / 100 for the similarity p: rapidfuzz
\* computes (1.0 - distance / maximum) * 100 in floats, and search_terms
\* divides by 100.
ScoreOf(p0) ==
  LET \* a / d for a finite float a and an integer 0 < d < Base
      QDiv(a, d) ==
        Only({Round(a[1], qr[1], a[3] - 75, qr[2] # 0) : qr \in {BigDiv(BigShl(a[2], 75), d)}})
      \* 1.0 - x for 0 <= x <= 1
      OneMinus(x) ==
        IF Len(x[2]) = 0 THEN Q(1, 1)
        ELSE Round(1, BigLin(BigShl(<<1>>, -x[3]), 1, x[2], -1), x[3], FALSE)
  IN Only({Only({Only({QDiv(score, 100) : score \in {QMul(OneMinus(norm_dist), Q(100, 1))}})
                 : norm_dist \in {FloatOf(p[2] - p[1], p[2])}})
           : p \in {p0}})

PartialRatioCompute(s1, s2) ==
  ScoreOf(IF Len(s1) = 0 \/ Len(s2) = 0
            THEN (IF Len(s1) = Len(s2) THEN <<1, 1>> ELSE <<0, 1>>)
          ELSE IF Len(s1) < Len(s2) THEN PartialRatioImpl(s1, s2)
          ELSE IF Len(s2) < Len(s1) THEN PartialRatioImpl(s2, s1)
          ELSE Only({IF a[1] * b[2] <= b[1] * a[2] THEN b ELSE a
                     : a \in {PartialRatioImpl(s1, s2)}, b \in {PartialRatioImpl(s2, s1)}}))

-----------------------------------------------------------------------------
(* app/utils/mapping.py                                                    *)

\* map_abbreviations(query): the full form when the whole lower-cased query is
\* an abbreviation, else the query unchanged
map_abbreviations(query) ==
  LET RECURSIVE MapAbbreviationsFrom(_)
      MapAbbreviationsFrom(k) ==
        IF k > Len(abbreviation_map) THEN query
        ELSE IF Lower(query) = abbreviation_map[k][1] THEN abbreviation_map[k][2]
        ELSE MapAbbreviationsFrom(k + 1)
  IN MapAbbreviationsFrom(1)

\* expand_synonyms(query): list(set(expanded)).  The set holds each variant once;
\* the order of the returned list is the iteration order of a set of str, which
\* string hashing leaves open: VariantOrders(query) is every list it can be.
\* ExpandedFrom is the list `expanded` before it is turned into a set.
expand_synonyms(query) ==
  LET RECURSIVE ExpandedFrom(_)
      ExpandedFrom(k) ==
        IF k > Len(SYNONYM_MAP) THEN <<>>
        ELSE LET key == SYNONYM_MAP[k][1]
                 synonyms == SYNONYM_MAP[k][2]
                 hit == \/ Lower(query) \in Range(synonyms)
                        \/ \E i \in 1..Len(synonyms) : Contains(synonyms[i], Lower(query))
             IN (IF hit THEN synonyms \o <<key>> ELSE <<>>) \o ExpandedFrom(k + 1)
  IN Range(<<Lower(query)>> \o ExpandedFrom(1))

\* all the orderings of a finite set, as sequences
RECURSIVE Orderings(_)
Orderings(S) ==
  IF S = {} THEN {<<>>}
  ELSE UNION {{<<x>> \o rest : rest \in Orderings(S \ {x})} : x \in S}

VariantOrders(query) == Orderings(expand_synonyms(query))

-----------------------------------------------------------------------------
(* app/services/who_icd_api.py: the fallback lists of the client.          *)

\* _get_enhanced_tm2_demo_data()
EnhancedTm2DemoData ==
  << [id |-> <<"T","M","2","_","0","0","1">>,
      code |-> <<"T","M","2","6",".","0">>,
      display |-> <<"T","r","a","d","i","t","i","o","n","a","l"," ","m","e","d","i","c","i","n","e"," ","d","i","s","o","r","d","e","r"," ","o","f"," ","J","w","a","r","a"," ","(","f","e","v","e","r",")">>,
      definition |-> <<"F","e","v","e","r"," ","c","o","n","d","i","t","i","o","n","s"," ","i","n"," ","t","r","a","d","i","t","i","o","n","a","l"," ","m","e","d","i","c","i","n","e">>,
      chapter |-> <<"2","6">>, is_tm2 |-> TRUE,
      source |-> <<"W","H","O"," ","I","C","D","-","A","P","I"," ","T","M","2"," ","(","D","e","m","o",")">>],
     [id |-> <<"T","M","2","_","0","0","2">>,
      code |-> <<"T","M","2","6",".","1">>,
      display |-> <<"T","r","a","d","i","t","i","o","n","a","l"," ","m","e","d","i","c","i","n","e"," ","d","i","s","o","r","d","e","r"," ","o","f"," ","A","t","i","s","a","r","a"," ","(","d","i","a","r","r","h","e","a",")">>,
      definition |-> <<"D","i","a","r","r","h","e","a"," ","c","o","n","d","i","t","i","o","n","s"," ","i","n"," ","t","r","a","d","i","t","i","o","n","a","l"," ","m","e","d","i","c","i","n","e">>,
      chapter |-> <<"2","6">>, is_tm2 |-> TRUE,
      source |-> <<"W","H","O"," ","I","C","D","-","A","P","I"," ","T","M","2"," ","(","D","e","m","o",")">>] >>

\* _get_enhanced_bio_demo_data()
EnhancedBioDemoData ==
  << [id |-> <<"B","I","O","_","0","0","1">>,
      code |-> <<"1","A","0","0">>,
      display |-> <<"F","e","v","e","r"," ","o","f"," ","u","n","k","n","o","w","n"," ","o","r","i","g","i","n">>,
      definition |-> <<"F","e","v","e","r"," ","w","i","t","h","o","u","t"," ","k","n","o","w","n"," ","c","a","u","s","e">>,
      chapter |-> <<"1">>, is_tm2 |-> FALSE,
      source |-> <<"W","H","O"," ","I","C","D","-","A","P","I"," ","(","D","e","m","o",")">>],
     [id |-> <<"B","I","O","_","0","0","2">>,
      code |-> <<"5","A","1","0">>,
      display |-> <<"T","y","p","e"," ","2"," ","d","i","a","b","e","t","e","s"," ","m","e","l","l","i","t","u","s">>,
      definition |-> <<"D","i","a","b","e","t","e","s"," ","m","e","l","l","i","t","u","s"," ","t","y","p","e"," ","2">>,
      chapter |-> <<"5">>, is_tm2 |-> FALSE,
      source |-> <<"W","H","O"," ","I","C","D","-","A","P","I"," ","(","D","e","m","o",")">>] >>

\* the prefix that the client strips from an entity's "@id"
EntityUriPrefix == <<"h","t","t","p",":","/","/","i","d",".","w","h","o",".","i","n","t","/","i","c","d","/","e","n","t","i","t","y","/">>


-----------------------------------------------------------------------------
(* app/schemas.py                                                          *)

NAMASTE == "namaste"
ICD11_TM2 == "icd11_tm2"
ICD11_BIO == "icd11_bio"
CodeSystemType == {NAMASTE, ICD11_TM2, ICD11_BIO}

\* Python's None, as a return value or an Optional argument
None == [None |-> TRUE]

-----------------------------------------------------------------------------
(* app/data/demo_data.py is not part of the sources at hand.  The bundled  *)
(* baseline is the dataset of the specification's concrete scenario: one   *)
(* SOURCE record AY001 "Jwara" mapped to TM26.0 with confidence 0.9, the   *)
(* TM2 record TM26.0 and a biomedicine record.                             *)

generate_namaste_data ==
  << [id |-> <<"N", "A", "M", "0", "0", "1">>, code |-> <<"A", "Y", "0", "0", "1">>, display |-> <<"J", "w", "a", "r", "a">>,
      definition |-> <<"F", "e", "v", "e", "r">>, synonyms |-> <<<<"S", "a", "n", "t", "a", "p", "a">>>>,
      dosha |-> <<"P", "i", "t", "t", "a">>, system |-> <<"A", "y", "u", "r", "v", "e", "d", "a">>,
      icd11_tm2_code |-> <<"T", "M", "2", "6", ".", "0">>, icd11_bio_code |-> <<"1", "A", "0", "0">>,
      mapping_confidence |-> Q(9, 10)] >>

generate_icd11_tm2_data ==
  << [id |-> <<"T", "M", "2", "_", "D", "1">>, code |-> <<"T", "M", "2", "6", ".", "0">>,
      display |-> <<"T", "r", "a", "d", "i", "t", "i", "o", "n", "a", "l", " ", "f", "e", "v", "e", "r", " ", "d", "i", "s", "o", "r", "d", "e", "r">>,
      definition |-> <<>>, icd11_bio_code |-> <<"1", "A", "0", "0">>] >>

generate_icd11_bio_data ==
  << [id |-> <<"B", "I", "O", "_", "D", "1">>, code |-> <<"1", "A", "0", "0">>, display |-> <<"F", "e", "v", "e", "r">>, definition |-> <<>>] >>

-----------------------------------------------------------------------------
(* app/data/csv_parser.py: CSVProcessor.parse_namaste_csv.  A CSV file is  *)
(* the list of rows csv.DictReader yields: records from column name to     *)
(* str, every row of a file with the columns of the file's header.         *)

\* the row raises no KeyError, and float(row.get('mapping_confidence', 0.8))
\* no ValueError
ParseRow(row) ==
  [id |-> <<"N", "A", "M", "A", "S", "T", "E", "_">> \o row.code,
   code |-> row.code,
   display |-> row.display_name,
   definition |-> Get(row, "definition", <<>>),
   dosha |-> Get(row, "dosha", <<>>),
   system |-> Get(row, "system", <<>>),
   synonyms |-> IF Get(row, "synonyms", <<>>) # <<>>
                  THEN Split(row.synonyms, ";") ELSE <<>>,
   icd11_tm2_code |-> Get(row, "icd11_tm2_code", <<>>),
   icd11_bio_code |-> Get(row, "icd11_bio_code", <<>>),
   mapping_confidence |-> IF "mapping_confidence" \in DOMAIN row
                            THEN ParseFloat(row.mapping_confidence) ELSE Q(8, 10),
   version |-> <<"1", ".", "0", ".", "0">>,
   mapping_source |-> IF Get(row, "icd11_tm2_code", <<>>) # <<>>
                        THEN <<"m", "a", "n", "u", "a", "l">> ELSE <<"u", "n", "m", "a", "p", "p", "e", "d">>]

\* parse_namaste_csv raises on the first row that does not parse
ParseRaises(rows) ==
  LET RowParses(row) ==
        /\ "code" \in DOMAIN row
        /\ "display_name" \in DOMAIN row
        /\ "mapping_confidence" \in DOMAIN row => IsFloatLiteral(row.mapping_confidence)
  IN \E i \in 1..Len(rows) : ~RowParses(rows[i])

parse_namaste_csv(rows) == [i \in 1..Len(rows) |-> ParseRow(rows[i])]

-----------------------------------------------------------------------------
(* app/services/who_icd_api.py: what the client hands to the service.  A   *)
(* response of the WHO API is the parsed JSON: {} (the empty record <<>>)  *)
(* when make_api_request caught an HTTP error, else a record.  The JSON    *)
(* keys "@id" and title/definition {"@value": ...} are the fields id,      *)
(* title and definition here; a title or definition that is not a JSON     *)
(* object is the value NotAnObject.                                        *)

EmptyResponse == <<>>
IsEmptyResponse(r) == DOMAIN r = {}

\* d.get(key) == value
GetEq(d, key, value) == key \in DOMAIN d /\ d[key] = value

\* A JSON value that is a list: as a dict key it is a TypeError (unhashable).
UnhashableCode == <<"<list>">>

\* A JSON value that is a string where an object is expected: .get on it is
\* an AttributeError.
NotAnObject == <<"<str>">>

\* child.get('title', {}).get('@value', '') raises
ValueRaises(entity) ==
  GetEq(entity, "title", NotAnObject) \/ GetEq(entity, "definition", NotAnObject)

\* s.replace(old, "")
RECURSIVE RemoveAll(_, _)
RemoveAll(s, old) ==
  IF Len(s) < Len(old) \/ Len(old) = 0 THEN s
  ELSE IF SubSeq(s, 1, Len(old)) = old THEN RemoveAll(SubSeq(s, Len(old) + 1, Len(s)), old)
  ELSE <<s[1]>> \o RemoveAll(Tail(s), old)

\* _extract_entities_from_chapter(children)
RECURSIVE extract_entities_from_chapter(_)
extract_entities_from_chapter(children) ==
  IF Len(children) = 0 THEN <<>>
  ELSE LET child == children[1]
           entity == [id |-> RemoveAll(Get(child, "id", <<>>), EntityUriPrefix),
                      code |-> Get(child, "code", <<>>),
                      display |-> Get(child, "title", <<>>),
                      definition |-> Get(child, "definition", <<>>),
                      chapter |-> Get(child, "chapter", <<>>),
                      is_tm2 |-> GetEq(child, "chapter", <<"2", "6">>),
                      source |-> <<"W", "H", "O", " ", "I", "C", "D", "-", "A", "P", "I", " ", "T", "M", "2">>]
       IN (IF GetEq(child, "classKind", <<"c", "a", "t", "e", "g", "o", "r", "y">>) THEN <<entity>> ELSE <<>>)
            \o (IF "child" \in DOMAIN child
                  THEN extract_entities_from_chapter(child.child) ELSE <<>>)
            \o extract_entities_from_chapter(Tail(children))

\* _extract_entities_from_chapter(children) raises: a category on the way has
\* a title or a definition that is not an object
RECURSIVE ExtractRaises(_)
ExtractRaises(children) ==
  \E i \in 1..Len(children) :
    \/ GetEq(children[i], "classKind", <<"c", "a", "t", "e", "g", "o", "r", "y">>) /\ ValueRaises(children[i])
    \/ "child" \in DOMAIN children[i] /\ ExtractRaises(children[i].child)

\* get_tm2_codes(): the parsed chapter, or the enhanced demo list when the
\* request failed, the extraction raised or it yielded no entity
get_tm2_codes(response) ==
  LET parsed_results == IF ~IsEmptyResponse(response) /\ "child" \in DOMAIN response
                             /\ ~ExtractRaises(response.child)
                          THEN extract_entities_from_chapter(response.child) ELSE <<>>
  IN IF Len(parsed_results) > 0 THEN parsed_results ELSE EnhancedTm2DemoData

\* s.startswith(prefix)
StartsWith(s, prefix) == Len(s) >= Len(prefix) /\ SubSeq(s, 1, Len(prefix)) = prefix

\* _parse_entity(entity): None when a .get raised
parse_entity(entity) ==
  IF ValueRaises(entity) THEN None ELSE
  [id |-> LET entity_id == Get(entity, "id", <<>>)
          IN IF StartsWith(entity_id, EntityUriPrefix)
               THEN RemoveAll(entity_id, EntityUriPrefix) ELSE entity_id,
   code |-> Get(entity, "code", <<>>),
   display |-> Get(entity, "title", <<>>),
   definition |-> Get(entity, "definition", <<>>),
   chapter |-> Get(entity, "chapter", <<>>),
   chapter_name |-> Get(entity, "chapterName", <<>>),
   is_tm2 |-> GetEq(entity, "chapter", <<"2", "6">>),
   who_api_version |-> <<"v", "2">>,
   source |-> <<"W", "H", "O", " ", "I", "C", "D", "-", "A", "P", "I">>]

\* get_biomedicine_codes(limit): one get_entity_details response per common code
RECURSIVE BioResults(_, _)
BioResults(responses, limit) ==
  IF Len(responses) = 0 THEN <<>>
  ELSE LET entity == responses[1]
           here == IF /\ ~IsEmptyResponse(entity) /\ ~GetEq(entity, "chapter", <<"2", "6">>)
                      /\ parse_entity(entity) # None
                     THEN <<parse_entity(entity)>> ELSE <<>>
       IN IF Len(here) >= limit THEN here
          ELSE here \o BioResults(Tail(responses), limit - Len(here))

get_biomedicine_codes(responses, limit) ==
  LET all_results == BioResults(responses, limit)
  IN IF Len(all_results) > 0 THEN all_results ELSE EnhancedBioDemoData

-----------------------------------------------------------------------------
(* app/services/terminology.py: TerminologyService, the dataset store.     *)

\* a faulty VersionLabel: the label counts from the last index, so the first
\* appended version repeats "1.0.0"
VersionLabelOffByOne(n) == <<"1", ".", "0", ".">> \o IntToStr(n - 1)

\* f"1.0.{len(self.versions)}"
VersionLabel(n) == <<"1", ".", "0", ".">> \o IntToStr(n)

\* _initialize_versions()
initialize_versions ==
  << [version |-> <<"1", ".", "0", ".", "0">>,
      systems |-> <<"NAMASTE", "ICD11_TM2", "ICD11_BIO">>,
      description |-> <<"I", "n", "i", "t", "i", "a", "l", " ", "v", "e", "r", "s", "i", "o", "n", " ", "w", "i", "t", "h", " ", "d", "e", "m", "o", " ", "d", "a", "t", "a">>] >>

\* get_biomedicine_codes(limit=50)
BioFetchLimit == 50

\* _load_or_fetch_tm2_data(): with a client, get_tm2_codes() never comes back
\* empty and never raises, so the demo generator is reached only without one
load_or_fetch_tm2_data(api, response) ==
  IF api /\ Len(get_tm2_codes(response)) > 0 THEN get_tm2_codes(response)
  ELSE generate_icd11_tm2_data

\* _load_or_fetch_biomedicine_data()
load_or_fetch_biomedicine_data(api, responses) ==
  IF api /\ Len(get_biomedicine_codes(responses, BioFetchLimit)) > 0
    THEN get_biomedicine_codes(responses, BioFetchLimit)
  ELSE generate_icd11_bio_data

\* item.update(fields): the fields of `fields` replace or extend those of item
Update(item, fields) == fields @@ item

\* _add_version_metadata(): SOURCE records take the label of self.versions[0],
\* TM2 and BIO records the fixed release stamp
StampNamaste(vs, item) == Update(item, [version |-> vs[1].version])

add_version_metadata_namaste(vs, data) == [i \in 1..Len(data) |-> StampNamaste(vs, data[i])]
add_version_metadata_icd(data) ==
  [i \in 1..Len(data) |->
     Update(data[i], [version |-> <<"2", "0", "2", "4", "-", "0", "1">>, effective_date |-> <<"2", "0", "2", "4", "-", "0", "1", "-", "0", "1">>,
                      who_api_version |-> <<"2", ".", "0", ".", "1">>])]

\* a faulty DictBy: the first item of a key wins
DictByFirst(data, key) ==
  [k \in {data[i][key] : i \in 1..Len(data)} |->
     data[CHOOSE i \in 1..Len(data) :
            /\ data[i][key] = k
            /\ \A j \in 1..Len(data) : data[j][key] = k => i <= j]]

\* {item[key]: item for item in data}: the last item of a key wins
DictBy(data, key) ==
  [k \in {data[i][key] : i \in 1..Len(data)} |->
     data[CHOOSE i \in 1..Len(data) :
            /\ data[i][key] = k
            /\ \A j \in 1..Len(data) : data[j][key] = k => j <= i]]

\* the dict comprehension raises TypeError on a key that is not hashable
Hashable(data, key) == \A i \in 1..Len(data) : data[i][key] # UnhashableCode

\* the rows of _create_search_index()
NamasteRow(item) ==
  [id |-> item.id,
   code |-> item.code,
   display |-> item.display,
   definition |-> Get(item, "definition", <<>>),
   system |-> NAMASTE,
   synonyms |-> Get(item, "synonyms", <<>>),
   dosha |-> Get(item, "dosha", <<>>),
   category |-> Get(item, "system", <<>>),
   mapped_tm2 |-> Get(item, "icd11_tm2_code", <<>>),
   mapped_bio |-> Get(item, "icd11_bio_code", <<>>),
   search_text |-> item.display \o <<" ">> \o Join(Get(item, "synonyms", <<>>), <<" ">>)
                     \o <<" ">> \o Get(item, "definition", <<>>) \o <<" ">>
                     \o Get(item, "dosha", <<>>) \o <<" ">> \o Get(item, "system", <<>>),
   version |-> Get(item, "version", <<>>)]

Tm2Row(item) ==
  [id |-> item.id,
   code |-> item.code,
   display |-> item.display,
   definition |-> Get(item, "definition", <<>>),
   system |-> ICD11_TM2,
   category |-> Get(item, "category", <<>>),
   parent_code |-> Get(item, "parent_code", <<>>),
   mapped_bio |-> Get(item, "icd11_bio_code", <<>>),
   search_text |-> item.display \o <<" ">> \o Get(item, "definition", <<>>) \o <<" ">>
                     \o Get(item, "category", <<>>),
   version |-> Get(item, "version", <<>>)]

BioRow(item) ==
  [id |-> item.id,
   code |-> item.code,
   display |-> item.display,
   definition |-> Get(item, "definition", <<>>),
   system |-> ICD11_BIO,
   category |-> Get(item, "category", <<>>),
   search_text |-> item.display \o <<" ">> \o Get(item, "definition", <<>>) \o <<" ">>
                     \o Get(item, "category", <<>>),
   version |-> Get(item, "version", <<>>)]

\* _create_search_index(): SOURCE rows, then TM2 rows, then BIO rows
create_search_index(nd, td, bd) ==
  [i \in 1..Len(nd) |-> NamasteRow(nd[i])]
    \o [i \in 1..Len(td) |-> Tm2Row(td[i])]
    \o [i \in 1..Len(bd) |-> BioRow(bd[i])]

\* _rebuild_indexes(): seven assignments in order.  FirstFailure is the first
\* dict comprehension that raises (7 when none does); the assignments before it
\* have taken effect, the others have not.
FirstFailure(nd, td, bd) ==
  IF ~Hashable(nd, "code") THEN 1
  ELSE IF ~Hashable(nd, "id") THEN 2
  ELSE IF ~Hashable(td, "code") THEN 3
  ELSE IF ~Hashable(td, "id") THEN 4
  ELSE IF ~Hashable(bd, "code") THEN 5
  ELSE IF ~Hashable(bd, "id") THEN 6
  ELSE 7

rebuild_indexes(nd, td, bd) ==
  LET f == FirstFailure(nd, td, bd)
  IN /\ namaste_by_code' = IF f > 1 THEN DictBy(nd, "code") ELSE namaste_by_code
     /\ namaste_by_id' = IF f > 2 THEN DictBy(nd, "id") ELSE namaste_by_id
     /\ tm2_by_code' = IF f > 3 THEN DictBy(td, "code") ELSE tm2_by_code
     /\ tm2_by_id' = IF f > 4 THEN DictBy(td, "id") ELSE tm2_by_id
     /\ bio_by_code' = IF f > 5 THEN DictBy(bd, "code") ELSE bio_by_code
     /\ bio_by_id' = IF f > 6 THEN DictBy(bd, "id") ELSE bio_by_id
     /\ search_index' = IF f > 6 THEN create_search_index(nd, td, bd) ELSE search_index

RebuildRaises(nd, td, bd) == FirstFailure(nd, td, bd) < 7

\* dict.get(code) or dict.get(code): by exact code first, by id as the fallback
Lookup(by_code, by_id, code) ==
  IF code \in DOMAIN by_code THEN by_code[code]
  ELSE IF code \in DOMAIN by_id THEN by_id[code]
  ELSE None

\* get_code_details(code, system)
get_code_details(code, system) ==
  IF system = NAMASTE THEN Lookup(namaste_by_code, namaste_by_id, code)
  ELSE IF system = ICD11_TM2 THEN Lookup(tm2_by_code, tm2_by_id, code)
  ELSE IF system = ICD11_BIO THEN Lookup(bio_by_code, bio_by_id, code)
  ELSE None

\* _get_target_version(system)
get_target_version(system) ==
  IF system = NAMASTE
    THEN (IF Len(versions) > 0 THEN versions[Len(versions)].version ELSE <<"1", ".", "0", ".", "0">>)
  ELSE <<"2", "0", "2", "4", "-", "0", "1">>

\* target_item.get("display") if target_item else None, then `or ""`
TargetDisplay(by_code, target_code) ==
  IF target_code \in DOMAIN by_code THEN Get(by_code[target_code], "display", <<>>) ELSE <<>>

\* the first SOURCE record, in list order, whose icd11_tm2_code equals code
ReverseMatches(code) ==
  {i \in 1..Len(namaste_data) :
     "icd11_tm2_code" \in DOMAIN namaste_data[i] /\ namaste_data[i].icd11_tm2_code = code}

FirstReverseMatch(code) ==
  CHOOSE i \in ReverseMatches(code) : \A j \in ReverseMatches(code) : i <= j

\* The four translation paths: target_code (empty when the mapping field is
\* unset), target_display and confidence as the branch leaves them.
\* a faulty NamasteToTm2: a pointer without a TM2 record counts as unset
NamasteToTm2Checked(source_item) ==
  LET target_code == Get(source_item, "icd11_tm2_code", <<>>)
  IN [target_code |-> IF target_code \in DOMAIN tm2_by_code THEN target_code ELSE <<>>,
      target_display |-> TargetDisplay(tm2_by_code, target_code),
      confidence |-> Get(source_item, "mapping_confidence", Q(8, 10))]

\* SOURCE -> TM2
NamasteToTm2(source_item) ==
  LET target_code == Get(source_item, "icd11_tm2_code", <<>>)
  IN [target_code |-> target_code,
      target_display |-> TargetDisplay(tm2_by_code, target_code),
      confidence |-> Get(source_item, "mapping_confidence", Q(8, 10))]

\* SOURCE -> BIO
NamasteToBio(source_item) ==
  LET target_code == Get(source_item, "icd11_bio_code", <<>>)
  IN [target_code |-> target_code,
      target_display |-> TargetDisplay(bio_by_code, target_code),
      confidence |-> QMul(Get(source_item, "mapping_confidence", Q(8, 10)), Q(9, 10))]

\* a faulty Tm2ToBio: the stored confidence in place of the fixed 0.85
Tm2ToBioStoredConfidence(source_item) ==
  LET target_code == Get(source_item, "icd11_bio_code", <<>>)
  IN [target_code |-> target_code,
      target_display |-> TargetDisplay(bio_by_code, target_code),
      confidence |-> Get(source_item, "mapping_confidence", Q(8, 10))]

\* TM2 -> BIO
Tm2ToBio(source_item) ==
  LET target_code == Get(source_item, "icd11_bio_code", <<>>)
  IN [target_code |-> target_code,
      target_display |-> TargetDisplay(bio_by_code, target_code),
      confidence |-> Q(85, 100)]

\* a faulty Tm2ToNamaste: the reverse scan runs on and keeps the last match
Tm2ToNamasteLastMatch(code) ==
  LET namaste_item ==
        namaste_data[CHOOSE i \in ReverseMatches(code) :
                       \A j \in ReverseMatches(code) : j <= i]
  IN [target_code |-> namaste_item.code,
      target_display |-> namaste_item.display,
      confidence |-> QMul(Get(namaste_item, "mapping_confidence", Q(8, 10)), Q(9, 10))]

\* TM2 -> SOURCE: the reverse scan stops at the first match
Tm2ToNamaste(code) ==
  LET namaste_item == namaste_data[FirstReverseMatch(code)]
  IN [target_code |-> namaste_item.code,
      target_display |-> namaste_item.display,
      confidence |-> QMul(Get(namaste_item, "mapping_confidence", Q(8, 10)), Q(9, 10))]

\* the branch of translate_code taken; when none is, or the reverse scan finds
\* no match, target_code stays None
TranslationPath(code, source_item, source_system, target_system) ==
  IF source_system = NAMASTE /\ target_system = ICD11_TM2 THEN NamasteToTm2(source_item)
  ELSE IF source_system = NAMASTE /\ target_system = ICD11_BIO THEN NamasteToBio(source_item)
  ELSE IF source_system = ICD11_TM2 /\ target_system = ICD11_BIO THEN Tm2ToBio(source_item)
  ELSE IF source_system = ICD11_TM2 /\ target_system = NAMASTE /\ ReverseMatches(code) # {}
    THEN Tm2ToNamaste(code)
  ELSE [target_code |-> <<>>, target_display |-> <<>>, confidence |-> Q(0, 1)]

\* a faulty translate_code: the `if not target_code` return is missing
translate_code_unchecked(code, source_system, target_system) ==
  LET source_item == get_code_details(code, source_system)
      path == TranslationPath(code, source_item, source_system, target_system)
  IN IF source_item = None THEN None
     ELSE [source_code |-> code,
           source_display |-> Get(source_item, "display", <<>>),
           target_code |-> path.target_code,
           target_display |-> path.target_display,
           confidence |-> path.confidence,
           source_version |-> Get(source_item, "version", <<>>),
           target_version |-> get_target_version(target_system)]

\* translate_code(code, source_system, target_system)
translate_code(code, source_system, target_system) ==
  LET source_item == get_code_details(code, source_system)
      path == TranslationPath(code, source_item, source_system, target_system)
  IN IF source_item = None THEN None
     ELSE IF path.target_code = <<>> THEN None
     ELSE [source_code |-> code,
           source_display |-> Get(source_item, "display", <<>>),
           target_code |-> path.target_code,
           target_display |-> path.target_display,
           confidence |-> path.confidence,
           source_version |-> Get(source_item, "version", <<>>),
           target_version |-> get_target_version(target_system)]

\* get_terminology_versions()
get_terminology_versions == versions

-----------------------------------------------------------------------------
(* The inputs the operations are called with.                              *)

\* CSV files: a file whose first record has a TM2 pointer that dangles and whose
\* second row repeats the baseline's code AY001; a file without a confidence
\* column whose two rows have the same code and map to TM26.0 as the baseline's
\* record does; a file whose second row has a confidence that is no number
CsvDiabetes ==
  << [code |-> <<"A", "Y", "0", "0", "2">>, display_name |-> <<"M", "a", "d", "h", "u", "m", "e", "h", "a">>, definition |-> <<"D", "i", "a", "b", "e", "t", "e", "s">>,
      synonyms |-> <<"P", "r", "a", "m", "e", "h", "a", ";", "S", "u", "g", "a", "r">>, icd11_tm2_code |-> <<"T", "M", "2", "6", ".", "9">>,
      icd11_bio_code |-> <<"5", "A", "1", "0">>, mapping_confidence |-> <<"0", ".", "8">>],
     [code |-> <<"A", "Y", "0", "0", "1">>, display_name |-> <<"J", "w", "a", "r", "a">>, definition |-> <<>>,
      synonyms |-> <<"J", "v", "a", "r">>, icd11_tm2_code |-> <<>>,
      icd11_bio_code |-> <<>>, mapping_confidence |-> <<"0", ".", "5">>] >>

CsvFever ==
  << [code |-> <<"A", "Y", "0", "0", "3">>, display_name |-> <<"V", "i", "s", "h", "a", "m", "a", " ", "J", "w", "a", "r", "a">>, synonyms |-> <<>>,
      icd11_tm2_code |-> <<"T", "M", "2", "6", ".", "0">>],
     [code |-> <<"A", "Y", "0", "0", "3">>, display_name |-> <<"J", "w", "a", "r", "a">>, synonyms |-> <<"V", "i", "s", "h", "a", "m", "a">>,
      icd11_tm2_code |-> <<"T", "M", "2", "6", ".", "0">>] >>

CsvBad ==
  << [code |-> <<"A", "Y", "0", "0", "4">>, display_name |-> <<"K", "a", "s", "a">>, mapping_confidence |-> <<"0", ".", "7">>],
     [code |-> <<"A", "Y", "0", "0", "5">>, display_name |-> <<"S", "h", "w", "a", "s", "a">>, mapping_confidence |-> <<"h", "i", "g", "h">>] >>

\* a file whose first row names a condition with a complication marker and a
\* pediatric marker and has a confidence above 1, and whose other rows each
\* match one variant of the query "tb" and share no letter with another; their
\* confidences are other spellings of 0.8 that float() reads
CsvChild ==
  << [code |-> <<"A", "Y", "0", "0", "6">>, display_name |-> <<"K", "i", "d", "s", " ", "I", "l", "l", "n", "e", "s", "s">>,
      definition |-> <<"C", "h", "i", "l", "d", " ", "i", "l", "l", "n", "e", "s", "s", " ", "d", "u", "e", " ", "t", "o", " ", "D", "i", "a", "b", "e", "t", "e", "s">>, synonyms |-> <<>>,
      icd11_tm2_code |-> <<"T", "M", "2", "6", ".", "1">>, icd11_bio_code |-> <<"5", "A", "1", "0">>,
      mapping_confidence |-> <<"1", ".", "5">>],
     [code |-> <<"A", "Y", "0", "0", "7">>, display_name |-> <<"R", "a", "j", "a", "y", "a", "k", "s", "h", "m", "a">>,
      definition |-> <<>>, synonyms |-> <<>>,
      icd11_tm2_code |-> <<>>, icd11_bio_code |-> <<>>,
      mapping_confidence |-> <<" ", "8", "e", "-", "1">>],
     [code |-> <<"A", "Y", "0", "0", "8">>, display_name |-> <<"T", "B">>,
      definition |-> <<>>, synonyms |-> <<>>,
      icd11_tm2_code |-> <<>>, icd11_bio_code |-> <<>>,
      mapping_confidence |-> <<"+", ".", "8">>] >>

CsvFiles == {CsvDiabetes, CsvFever, CsvBad, CsvChild}

\* Responses to the chapter-26 request of get_tm2_codes: a failed request, a
\* block holding one category, and a category whose "code" is a JSON list
Tm2ChapterGood ==
  [child |-> << [classKind |-> <<"b", "l", "o", "c", "k">>, id |-> EntityUriPrefix \o <<"B", "2", "6">>,
                 title |-> <<"F", "e", "v", "e", "r", " ", "d", "i", "s", "o", "r", "d", "e", "r", "s">>,
                 child |-> << [classKind |-> <<"c", "a", "t", "e", "g", "o", "r", "y">>,
                               id |-> EntityUriPrefix \o <<"E", "2", "6">>,
                               code |-> <<"T", "M", "2", "6", ".", "0">>, title |-> <<"J", "w", "a", "r", "a", " ", "d", "i", "s", "o", "r", "d", "e", "r">>,
                               chapter |-> <<"2", "6">>] >>] >>]

Tm2ChapterBadCode ==
  [child |-> << [classKind |-> <<"c", "a", "t", "e", "g", "o", "r", "y">>, id |-> EntityUriPrefix \o <<"E", "2", "7">>,
                 code |-> UnhashableCode, title |-> <<"A", "t", "i", "s", "a", "r", "a", " ", "d", "i", "s", "o", "r", "d", "e", "r">>,
                 chapter |-> <<"2", "6">>] >>]

Tm2Responses == {EmptyResponse, Tm2ChapterGood, Tm2ChapterBadCode}

\* Responses to the five get_entity_details requests of get_biomedicine_codes:
\* all failed; or one entity, one whose "@id" holds the prefix after its first
\* character, one whose title is not an object, and two failures
BioAllFailed == <<EmptyResponse, EmptyResponse, EmptyResponse, EmptyResponse, EmptyResponse>>

BioOneFound ==
  << [id |-> EntityUriPrefix \o <<"E", "1", "A">>, code |-> <<"1", "A", "0", "0">>, title |-> <<"P", "y", "r", "e", "x", "i", "a">>,
      chapter |-> <<"1">>],
     [id |-> <<"x">> \o EntityUriPrefix \o <<"E", "2", "C">>, code |-> <<"C", "A", "2", "3">>, title |-> <<"A", "s", "t", "h", "m", "a">>,
      chapter |-> <<"1", "2">>],
     [id |-> EntityUriPrefix \o <<"E", "3", "B">>, code |-> <<"B", "A", "0", "0">>, title |-> NotAnObject,
      chapter |-> <<"1", "1">>],
     EmptyResponse, EmptyResponse >>

BioResponses == {BioAllFailed, BioOneFound}

\* search requests without their limit: no filter and no context; a system
\* filter; one existing condition; a newborn; a patient context
SearchContexts ==
  { [x \in {} |-> x],
    [system |-> NAMASTE],
    [existing_conditions |-> <<<<"d", "i", "a", "b", "e", "t", "e", "s">>>>],
    [patient_age |-> 0],
    [patient_age |-> 70, patient_gender |-> <<"F", "e", "m", "a", "l", "e">>,
     existing_conditions |-> <<<<"F", "e", "v", "e", "r">>>>, symptoms |-> <<<<"f", "e", "v", "e", "r">>>>] }

\* codes and ids asked of translate_code and get_code_details
CodeInputs ==
  {<<"A", "Y", "0", "0", "1">>, <<"A", "Y", "0", "0", "2">>, <<"A", "Y", "0", "0", "3">>, <<"A", "Y", "0", "0", "6">>, <<"N", "A", "M", "0", "0", "1">>, <<"T", "M", "2", "6", ".", "0">>, <<"T", "M", "2", "6", ".", "9">>, <<"T", "M", "2", "_", "0", "0", "1">>,
   <<"1", "A", "0", "0">>, <<"Z", "Z", "9", "9">>}


-----------------------------------------------------------------------------
(* app/services/terminology.py: the ranking engine.  A search request is a *)
(* record with the fields query and limit and, when they are not None,     *)
(* system, patient_age, patient_gender, existing_conditions and symptoms.  *)

\* queries asked of search_terms
QueryInputs == {<<"j", "w", "a", "r", "a">>, <<"f", "e", "v", "e", "r">>, <<"m", "a", "d", "h", "u", "m", "e", "h", "a">>, <<"d", "i", "a", "b", "e", "t", "e", "s">>, <<"t", "b">>}

\* PartialRatioCompute over the expanded queries and the display, definition
\* and synonym strings of every record the store can hold, tabulated once
\* (f @@ f is f)
PartialRatioTable ==
  LET records ==
        Range(generate_namaste_data) \cup Range(generate_icd11_tm2_data)
          \cup Range(generate_icd11_bio_data)
          \cup UNION {Range(parse_namaste_csv(rows)) :
                        rows \in {file \in CsvFiles : ~ParseRaises(file)}}
          \cup UNION {Range(get_tm2_codes(t)) : t \in Tm2Responses}
          \cup UNION {Range(get_biomedicine_codes(b, BioFetchLimit)) : b \in BioResponses}
      needles == UNION {expand_synonyms(map_abbreviations(q)) : q \in QueryInputs}
      haystacks ==
        UNION {{r.display, Get(r, "definition", <<>>)} \cup Range(Get(r, "synonyms", <<>>))
               : r \in records}
  IN Only({f @@ f : f \in {[p \in needles \X haystacks |-> PartialRatioCompute(p[1], p[2])]}})

\* fuzz.partial_ratio(s1, s2) / 100
partial_ratio(s1, s2) ==
  Only({IF <<s1, s2>> \in DOMAIN table THEN table[<<s1, s2>>] ELSE PartialRatioCompute(s1, s2)
        : table \in {PartialRatioTable}})

\* any(term in text for term in terms)
AnyTermIn(terms, text) == \E i \in 1..Len(terms) : Contains(terms[i], text)

\* _get_related_terms(condition): the terms of the first key found in condition
get_related_terms(condition) ==
  LET RECURSIVE RelatedTermsFrom(_)
      RelatedTermsFrom(k) ==
        IF k > Len(related_terms_map) THEN <<>>
        ELSE IF Contains(related_terms_map[k][1], condition) THEN related_terms_map[k][2]
        ELSE RelatedTermsFrom(k + 1)
  IN RelatedTermsFrom(1)

\* _is_complication_of(item, existing_conditions)
is_complication_of(item, existing_conditions) ==
  LET item_text == Lower(Get(item, "search_text", <<>>))
  IN \E i \in 1..Len(existing_conditions) :
       /\ Contains(Lower(existing_conditions[i]), item_text)
       /\ AnyTermIn(complication_keywords, item_text)

\* the factor of the age block: `if patient_age:` skips None and 0
AgeFactor(text, req) ==
  IF "patient_age" \in DOMAIN req /\ req.patient_age # 0 THEN
    IF req.patient_age < 18 /\ AnyTermIn(pediatric_terms, text) THEN Q(5, 2)
    ELSE IF req.patient_age > 65 /\ AnyTermIn(geriatric_terms, text) THEN Q(5, 2)
    ELSE Q(1, 1)
  ELSE Q(1, 1)

\* the factor of the gender block
GenderFactor(text, req) ==
  IF "patient_gender" \in DOMAIN req /\ req.patient_gender # <<>> THEN
    LET gender_lower == Lower(req.patient_gender)
        gender_terms == IF gender_lower = <<"f", "e", "m", "a", "l", "e">> THEN female_terms
                        ELSE IF gender_lower = <<"m", "a", "l", "e">> THEN male_terms
                        ELSE <<>>
    IN IF AnyTermIn(gender_terms, text) THEN Q(5, 2) ELSE Q(1, 1)
  ELSE Q(1, 1)

\* the factor one existing condition contributes
ConditionFactor(item, text, condition) ==
  LET condition_lower == Lower(condition)
  IN IF Contains(condition_lower, text) THEN Q(3, 1)
     ELSE IF is_complication_of(item, <<condition>>) THEN Q(4, 1)
     ELSE IF AnyTermIn(get_related_terms(condition_lower), text) THEN Q(5, 2)
     ELSE Q(1, 1)

\* a faulty ConditionsBoost: the existing conditions are ignored
NoConditionsBoost(boosted_score, item, text, conditions) == boosted_score

\* the loop over existing_conditions: boosted_score *= the factor of each
\* condition in turn (no statement for the factor 1.0)
RECURSIVE ConditionsBoost(_, _, _, _)
ConditionsBoost(boosted_score, item, text, conditions) ==
  IF Len(conditions) = 0 THEN boosted_score
  ELSE ConditionsBoost(QMul(boosted_score, ConditionFactor(item, text, conditions[1])),
                       item, text, Tail(conditions))

\* the factor of the symptoms block: 2.0 once, at the first symptom found
SymptomsFactor(text, req) ==
  IF "symptoms" \in DOMAIN req
       /\ \E i \in 1..Len(req.symptoms) : Contains(Lower(req.symptoms[i]), text)
    THEN Q(2, 1) ELSE Q(1, 1)

\* a faulty apply_context_boosting: the product is returned without the cap
apply_context_boosting_uncapped(score, item, req) ==
  LET text == Lower(Get(item, "search_text", <<>>))
  IN QMul(ConditionsBoost(QMul(QMul(score, AgeFactor(text, req)), GenderFactor(text, req)),
                          item, text, Get(req, "existing_conditions", <<>>)),
          SymptomsFactor(text, req))

\* _apply_context_boosting(score, item, ...): boosted_score *= factor for the
\* age, the gender, each condition and the symptoms in this order, each
\* product rounded to a float; the result capped at 1.0
apply_context_boosting(score, item, req) ==
  LET text == Lower(Get(item, "search_text", <<>>))
      boosted_score ==
        QMul(ConditionsBoost(QMul(QMul(score, AgeFactor(text, req)), GenderFactor(text, req)),
                             item, text, Get(req, "existing_conditions", <<>>)),
             SymptomsFactor(text, req))
  IN QMin(boosted_score, Q(1, 1))

\* exact_match of search_terms
ExactMatch(search_query, item) ==
  \/ Contains(Lower(search_query), Lower(item.display))
  \/ \E i \in 1..Len(Get(item, "synonyms", <<>>)) :
       Contains(Lower(search_query), Lower(item.synonyms[i]))

\* the score of a row before boosting: 1.0 for an exact match, else the
\* highest of the ratios of the display, the synonyms and the definition
BaseScore(search_query, item) ==
  LET RECURSIVE MaxOf(_)
      MaxOf(scores) ==
        IF Len(scores) = 0 THEN Q(0, 1) ELSE QMax(scores[1], MaxOf(Tail(scores)))
  IN IF ExactMatch(search_query, item) THEN Q(1, 1)
     ELSE Only({MaxOf([i \in 1..Len(strings) |-> partial_ratio(search_query, strings[i])])
                : strings \in {<<item.display>> \o Get(item, "synonyms", <<>>)
                                 \o <<Get(item, "definition", <<>>)>>}})

\* the score of a row after boosting
BoostedScore(search_query, item, req) ==
  apply_context_boosting(BaseScore(search_query, item), item, req)

\* the minimum threshold of search_terms: score > 0.3
Threshold == Q(3, 10)

\* `if system and item["system"] != system: continue`
PassesFilter(item, req) == "system" \in DOMAIN req => item.system = req.system

\* mapped_codes of a result row; the empty record when the dict is empty
MappedCodes(item) ==
  LET tm2 == item.system = NAMASTE /\ Get(item, "mapped_tm2", <<>>) # <<>>
      bio == item.system \in {NAMASTE, ICD11_TM2} /\ Get(item, "mapped_bio", <<>>) # <<>>
  IN IF tm2 /\ bio THEN [icd11_tm2 |-> item.mapped_tm2, icd11_bio |-> item.mapped_bio]
     ELSE IF tm2 THEN [icd11_tm2 |-> item.mapped_tm2]
     ELSE IF bio THEN [icd11_bio |-> item.mapped_bio]
     ELSE <<>>

\* SearchResult(...) of a row
MakeResult(item, score) ==
  LET base == [id |-> item.id, code |-> item.code, display |-> item.display,
               definition |-> Get(item, "definition", <<>>), system |-> item.system,
               score |-> score, version |-> Get(item, "version", <<>>)]
      mapped_codes == MappedCodes(item)
  IN IF DOMAIN mapped_codes # {}
       THEN [mapped_codes |-> mapped_codes, mapping_confidence |-> Q(9, 10)] @@ base
       ELSE base

\* the inner loop of search_terms for one expanded query: the results appended,
\* in index order
scan_variant(search_query, req) ==
  LET RECURSIVE ScanFrom(_)
      ScanFrom(k) ==
        IF k > Len(search_index) THEN <<>>
        ELSE Only({(IF PassesFilter(item, req)
                      THEN Only({IF QLt(Threshold, score) THEN <<MakeResult(item, score)>>
                                 ELSE <<>>
                                 : score \in {BoostedScore(search_query, item, req)}})
                    ELSE <<>>)
                     \o ScanFrom(k + 1)
                   : item \in {search_index[k]}})
  IN ScanFrom(1)

\* the results of every expanded query, as pairs <<query, results>>
ScanAll(req) ==
  {<<v, scan_variant(v, req)>> : v \in expand_synonyms(map_abbreviations(req.query))}

\* `results` after the outer loop ran through the expanded queries in `order`
RECURSIVE Collect(_, _)
Collect(scans, order) ==
  IF Len(order) = 0 THEN <<>>
  ELSE (CHOOSE p \in scans : p[1] = order[1])[2] \o Collect(scans, Tail(order))

\* the deduplication loop: the first result of each id is kept
\* a faulty Dedup: every result is kept
KeepAll(results) == results

Dedup(results) ==
  LET RECURSIVE DedupFrom(_, _)
      DedupFrom(rest, seen) ==
        IF Len(rest) = 0 THEN <<>>
        ELSE IF rest[1].id \in seen THEN DedupFrom(Tail(rest), seen)
        ELSE <<rest[1]>> \o DedupFrom(Tail(rest), seen \cup {rest[1].id})
  IN DedupFrom(results, {})

\* list.sort(key=score, reverse=True): stable, equal scores keep their order
RECURSIVE SortByScore(_)
SortByScore(results) ==
  LET RECURSIVE InsertByScore(_, _)
      InsertByScore(sorted, r) ==
        IF Len(sorted) = 0 THEN <<r>>
        ELSE IF QLt(sorted[1].score, r.score) THEN <<r>> \o sorted
        ELSE <<sorted[1]>> \o InsertByScore(Tail(sorted), r)
  IN IF Len(results) = 0 THEN <<>>
     ELSE InsertByScore(SortByScore(SubSeq(results, 1, Len(results) - 1)),
                        results[Len(results)])

\* unique_results[:limit] for limit >= 0
Take(results, limit) ==
  SubSeq(results, 1, IF limit < Len(results) THEN limit ELSE Len(results))

\* search_terms from the scanned results, for one iteration order of the set
search_terms_from(scans, order, limit) ==
  Take(SortByScore(Dedup(Collect(scans, order))), limit)

\* search_terms(query, system, patient_age, patient_gender, existing_conditions,
\* symptoms, limit), the expanded queries iterated in `order`
search_terms(req, order) == search_terms_from(ScanAll(req), order, req.limit)
-----------------------------------------------------------------------------
(* The service as a state machine.  ret is Idle between calls; an          *)
(* operation runs as one step (the handlers are synchronous calls made     *)
(* from async endpoints, so a handler runs to completion) and leaves its   *)
(* arguments and return value in ret until the caller has taken them.      *)

Idle == [op |-> "idle"]

\* a slot of the event loop that holds no request
Free == [op |-> "free"]

\* TerminologyService.__init__: without credentials the bundled demo data; with
\* a client, what the two fetches return.  A constructor whose _rebuild_indexes
\* raises starts no service.
InitWith(api, tm2_response, bio_responses) ==
  LET vs == initialize_versions
      nd == add_version_metadata_namaste(vs, generate_namaste_data)
      td == add_version_metadata_icd(load_or_fetch_tm2_data(api, tm2_response))
      bd == add_version_metadata_icd(load_or_fetch_biomedicine_data(api, bio_responses))
  IN /\ ~RebuildRaises(nd, td, bd)
     /\ who_api = api
     /\ versions = vs
     /\ namaste_data = nd
     /\ icd11_tm2_data = td
     /\ icd11_bio_data = bd
     /\ namaste_by_code = DictBy(nd, "code")
     /\ namaste_by_id = DictBy(nd, "id")
     /\ tm2_by_code = DictBy(td, "code")
     /\ tm2_by_id = DictBy(td, "id")
     /\ bio_by_code = DictBy(bd, "code")
     /\ bio_by_id = DictBy(bd, "id")
     /\ search_index = create_search_index(nd, td, bd)
     /\ ret = Idle
     /\ tasks = [i \in 1..MaxTasks |-> Free]

\* SearchService.__init__: redis_client is None when the ping failed, else a
\* client; its database may hold any keys, here none
NoRedis == [available |-> FALSE, data |-> <<>>]
EmptyRedis == [available |-> TRUE, data |-> <<>>]

InitStore ==
  \/ InitWith(FALSE, EmptyResponse, BioAllFailed)
  \/ \E t \in Tm2Responses, b \in BioResponses : InitWith(TRUE, t, b)

\* the service alone, and the service behind a SearchService
Init == InitStore /\ redis_client = NoRedis /\ cached_from = <<>>

InitCache == InitStore /\ redis_client \in {NoRedis, EmptyRedis} /\ cached_from = <<>>

\* import_namaste_csv(csv_content)
ImportNamasteCsv(rows) ==
  /\ ret = Idle
  /\ UNCHANGED <<tasks, redis_client, cached_from>>
  /\ IF ParseRaises(rows)
       THEN /\ ret' = [op |-> "import_namaste_csv", csv |-> rows, status |-> "error"]
            /\ UNCHANGED store
       ELSE LET new_version == [version |-> VersionLabel(Len(versions)),
                                systems |-> <<"NAMASTE">>,
                                description |-> <<"I", "m", "p", "o", "r", "t", "e", "d", " ", "f", "r", "o", "m", " ", "C", "S", "V">>]
                parsed == parse_namaste_csv(rows)
                new_data == [i \in 1..Len(parsed) |->
                               Update(parsed[i], [version |-> new_version.version])]
                nd == namaste_data \o new_data
            IN /\ versions' = Append(versions, new_version)
               /\ namaste_data' = nd
               /\ rebuild_indexes(nd, icd11_tm2_data, icd11_bio_data)
               /\ UNCHANGED <<who_api, icd11_tm2_data, icd11_bio_data>>
               /\ ret' = IF RebuildRaises(nd, icd11_tm2_data, icd11_bio_data)
                           THEN [op |-> "import_namaste_csv", csv |-> rows,
                                 status |-> "error"]
                           ELSE [op |-> "import_namaste_csv", csv |-> rows,
                                 status |-> "success",
                                 imported_count |-> Len(new_data),
                                 new_version |-> new_version.version]

\* a faulty sync_with_who_api: the check of the client is missing, so that a
\* service without a client loads the bundled lists and mints a version
SyncWithoutClientCheck(tm2_response, bio_responses) ==
  /\ ret = Idle
  /\ UNCHANGED <<tasks, redis_client, cached_from>>
  /\ LET new_version == [version |-> VersionLabel(Len(versions)),
                         systems |-> <<"ICD11_TM2", "ICD11_BIO">>,
                         description |-> <<"W", "H", "O", " ", "A", "P", "I", " ", "S", "y", "n", "c">>]
         vs == Append(versions, new_version)
         nd == add_version_metadata_namaste(vs, namaste_data)
         td == add_version_metadata_icd(load_or_fetch_tm2_data(who_api, tm2_response))
         bd == add_version_metadata_icd(
                 load_or_fetch_biomedicine_data(who_api, bio_responses))
     IN /\ versions' = vs
        /\ namaste_data' = nd
        /\ icd11_tm2_data' = td
        /\ icd11_bio_data' = bd
        /\ rebuild_indexes(nd, td, bd)
        /\ UNCHANGED who_api
        /\ ret' = [op |-> "sync_with_who_api",
                   status |-> IF RebuildRaises(nd, td, bd) THEN "error" ELSE "success"]

\* sync_with_who_api()
SyncWithWhoApi(tm2_response, bio_responses) ==
  /\ ret = Idle
  /\ UNCHANGED <<tasks, redis_client, cached_from>>
  /\ IF ~who_api
       THEN /\ ret' = [op |-> "sync_with_who_api", status |-> "error"]
            /\ UNCHANGED store
       ELSE LET fetched_tm2 == load_or_fetch_tm2_data(who_api, tm2_response)
                fetched_bio == load_or_fetch_biomedicine_data(who_api, bio_responses)
                new_version ==
                  [version |-> VersionLabel(Len(versions)),
                   systems |-> <<"ICD11_TM2", "ICD11_BIO">>,
                   description |-> <<"W", "H", "O", " ", "A", "P", "I", " ", "S", "y", "n", "c", " ", "-", " ">> \o IntToStr(Len(fetched_tm2))
                                     \o <<" ", "T", "M", "2", ",", " ">> \o IntToStr(Len(fetched_bio))
                                     \o <<" ", "B", "i", "o", " ", "c", "o", "d", "e", "s">>]
                vs == Append(versions, new_version)
                nd == add_version_metadata_namaste(vs, namaste_data)
                td == add_version_metadata_icd(fetched_tm2)
                bd == add_version_metadata_icd(fetched_bio)
            IN /\ versions' = vs
               /\ namaste_data' = nd
               /\ icd11_tm2_data' = td
               /\ icd11_bio_data' = bd
               /\ rebuild_indexes(nd, td, bd)
               /\ UNCHANGED who_api
               /\ ret' = IF RebuildRaises(nd, td, bd)
                           THEN [op |-> "sync_with_who_api", status |-> "error"]
                           ELSE [op |-> "sync_with_who_api", status |-> "success",
                                 tm2_count |-> Len(td), bio_count |-> Len(bd),
                                 new_version |-> new_version.version]

\* translate_code(code, source_system, target_system)
TranslateCode(code, source_system, target_system) ==
  /\ ret = Idle
  /\ UNCHANGED <<tasks, redis_client, cached_from>>
  /\ ret' = [op |-> "translate_code", code |-> code,
             source_system |-> source_system, target_system |-> target_system,
             result |-> translate_code(code, source_system, target_system)]
  /\ UNCHANGED store

\* get_code_details(code, system)
GetCodeDetails(code, system) ==
  /\ ret = Idle
  /\ UNCHANGED <<tasks, redis_client, cached_from>>
  /\ ret' = [op |-> "get_code_details", code |-> code, system |-> system,
             result |-> get_code_details(code, system)]
  /\ UNCHANGED store

\* search_terms(query, ..., limit): the set of expanded queries is iterated in
\* an order the hash seed of the process decides
SearchTerms(query, context) ==
  /\ ret = Idle
  /\ UNCHANGED <<tasks, redis_client, cached_from>>
  /\ \E scans \in {ScanAll([query |-> query] @@ context)},
        order \in VariantOrders(map_abbreviations(query)),
        limit \in 1..MaxLimit :
       ret' = [op |-> "search_terms",
               request |-> [query |-> query, limit |-> limit] @@ context,
               result |-> search_terms_from(scans, order, limit)]
  /\ UNCHANGED store

\* get_terminology_versions()
GetTerminologyVersions ==
  /\ ret = Idle
  /\ UNCHANGED <<tasks, redis_client, cached_from>>
  /\ ret' = [op |-> "get_terminology_versions", result |-> get_terminology_versions]
  /\ UNCHANGED store

\* the caller takes the return value
Return ==
  /\ ret # Idle
  /\ UNCHANGED <<tasks, redis_client, cached_from>>
  /\ ret' = Idle
  /\ UNCHANGED store

\* the store operations, until the version list has MaxVersions entries
Next ==
  \/ \E rows \in CsvFiles : Len(versions) < MaxVersions /\ ImportNamasteCsv(rows)
  \/ \E t \in Tm2Responses, b \in BioResponses :
       Len(versions) < MaxVersions /\ SyncWithWhoApi(t, b)
  \/ \E code \in CodeInputs, s \in CodeSystemType, t \in CodeSystemType :
       TranslateCode(code, s, t)
  \/ \E code \in CodeInputs, s \in CodeSystemType : GetCodeDetails(code, s)
  \/ GetTerminologyVersions
  \/ Return

Spec == Init /\ [][Next]_vars

\* searches over the stores that imports and syncs build, until the version
\* list has MaxSearchVersions entries
NextSearch ==
  \/ \E rows \in CsvFiles : Len(versions) < MaxSearchVersions /\ ImportNamasteCsv(rows)
  \/ \E t \in Tm2Responses, b \in BioResponses :
       Len(versions) < MaxSearchVersions /\ SyncWithWhoApi(t, b)
  \/ \E query \in QueryInputs, context \in SearchContexts : SearchTerms(query, context)
  \/ Return

SpecSearch == Init /\ [][NextSearch]_vars

-----------------------------------------------------------------------------
(* The application as the event loop runs it (app/main.py).  Every         *)
(* endpoint is an `async def` whose body calls the service and reaches no  *)
(* await, and uvicorn.run(app) serves all requests on one event loop: a    *)
(* handler that has started runs to its return before another one starts.  *)
(* Here the service methods run statement by statement; a task is a        *)
(* request in flight, "ready" until the loop starts its handler.           *)

\* the handler of task t has started and has not returned
InHandler(t) == t.op # "free" /\ t.pc # "ready"

\* handlers dispatched to a thread pool (`def` endpoints): a thread may run at
\* any time
ThreadPoolRuns(i) == tasks[i].op # "free"

\* the event loop resumes task i only when no other handler is between its
\* start and its return
EventLoopRuns(i) ==
  /\ tasks[i].op # "free"
  /\ \A j \in DOMAIN tasks : j # i => ~InHandler(tasks[j])

\* imports and syncs in flight
Mutations == {"import_namaste_csv", "sync_with_who_api"}

\* the requests of the clients: an import that succeeds and one whose CSV does
\* not parse, a sync, and reads of the codes they touch
LoopRequests ==
  { [op |-> "import_namaste_csv", pc |-> "ready", csv |-> CsvFever],
    [op |-> "import_namaste_csv", pc |-> "ready", csv |-> CsvBad],
    [op |-> "sync_with_who_api", pc |-> "ready"],
    [op |-> "get_code_details", pc |-> "ready", code |-> <<"T", "M", "2", "6", ".", "0">>, system |-> ICD11_TM2],
    [op |-> "translate_code", pc |-> "ready", code |-> <<"T", "M", "2", "6", ".", "0">>,
     source_system |-> ICD11_TM2, target_system |-> NAMASTE] }

\* what the WHO API answers while they are served: the chapter with one
\* category or with the category whose code is a list, and no entity
LoopTm2Responses == {Tm2ChapterGood, Tm2ChapterBadCode}

\* a request arrives, takes the first free slot and waits for the loop
Receive(i, request) ==
  /\ tasks[i] = Free
  /\ \A j \in 1..(i - 1) : tasks[j] # Free
  /\ request.op \in Mutations
       => Len(versions) + Cardinality({j \in DOMAIN tasks : tasks[j].op \in Mutations})
            < MaxLoopVersions
  /\ tasks' = [tasks EXCEPT ![i] = request]
  /\ UNCHANGED <<store, ret, redis_client, cached_from>>

\* the handler of task i returns `response`
Returns(i, response) ==
  /\ tasks' = [tasks EXCEPT ![i] = Free]
  /\ ret' = response
  /\ UNCHANGED <<redis_client, cached_from>>

\* the handler of task i moves on to the statement `pc`, with `locals` set
Goes(i, pc, locals) ==
  /\ tasks' = [tasks EXCEPT ![i] = locals @@ [pc |-> pc] @@ tasks[i]]
  /\ UNCHANGED <<ret, redis_client, cached_from>>

\* get_code_details and translate_code, one statement of the handler
ReadStep(i) ==
  LET t == tasks[i]
  IN /\ t.op \in {"get_code_details", "translate_code"}
     /\ t.pc = "ready"
     /\ Returns(i, IF t.op = "get_code_details"
                     THEN [op |-> t.op, code |-> t.code, system |-> t.system,
                           result |-> get_code_details(t.code, t.system)]
                     ELSE [op |-> t.op, code |-> t.code,
                           source_system |-> t.source_system,
                           target_system |-> t.target_system,
                           result |-> translate_code(t.code, t.source_system,
                                                     t.target_system)])
     /\ UNCHANGED store

\* import_namaste_csv up to _rebuild_indexes(): parse and build new_version;
\* versions.append; stamp the new records and extend namaste_data
ImportStep(i) ==
  LET t == tasks[i]
  IN /\ t.op = "import_namaste_csv"
     /\ \/ /\ t.pc = "ready"
           /\ IF ParseRaises(t.csv)
                THEN Returns(i, [op |-> t.op, csv |-> t.csv, status |-> "error"])
                ELSE Goes(i, "labelled",
                          [new_data |-> parse_namaste_csv(t.csv),
                           new_version |-> [version |-> VersionLabel(Len(versions)),
                                            systems |-> <<"NAMASTE">>,
                                            description |-> <<"I", "m", "p", "o", "r", "t", "e", "d", " ", "f", "r", "o", "m", " ", "C", "S", "V">>]])
           /\ UNCHANGED store
        \/ /\ t.pc = "labelled"
           /\ versions' = Append(versions, t.new_version)
           /\ Goes(i, "appended", <<>>)
           /\ UNCHANGED <<who_api, namaste_data, icd11_tm2_data, icd11_bio_data,
                          namaste_by_code, namaste_by_id, tm2_by_code, tm2_by_id,
                          bio_by_code, bio_by_id, search_index>>
        \/ /\ t.pc = "appended"
           /\ namaste_data' =
                namaste_data \o [k \in 1..Len(t.new_data) |->
                                   Update(t.new_data[k], [version |-> t.new_version.version])]
           /\ Goes(i, "rebuild", [k |-> 1])
           /\ UNCHANGED <<who_api, versions, icd11_tm2_data, icd11_bio_data,
                          namaste_by_code, namaste_by_id, tm2_by_code, tm2_by_id,
                          bio_by_code, bio_by_id, search_index>>

\* sync_with_who_api up to _rebuild_indexes(): the two fetches, new_version,
\* versions.append, _add_version_metadata().  The SOURCE records are stamped in
\* place, so the lookup dicts, which hold the same objects, show the stamp.
SyncStep(i) ==
  LET t == tasks[i]
  IN /\ t.op = "sync_with_who_api"
     /\ \/ /\ t.pc = "ready"
           /\ IF ~who_api
                THEN /\ Returns(i, [op |-> t.op, status |-> "error"])
                     /\ UNCHANGED store
                ELSE /\ \E r \in LoopTm2Responses :
                          icd11_tm2_data' = load_or_fetch_tm2_data(who_api, r)
                     /\ Goes(i, "tm2", <<>>)
                     /\ UNCHANGED <<who_api, versions, namaste_data, icd11_bio_data,
                                    namaste_by_code, namaste_by_id, tm2_by_code,
                                    tm2_by_id, bio_by_code, bio_by_id, search_index>>
        \/ /\ t.pc = "tm2"
           /\ icd11_bio_data' = load_or_fetch_biomedicine_data(who_api, BioAllFailed)
           /\ Goes(i, "bio", <<>>)
           /\ UNCHANGED <<who_api, versions, namaste_data, icd11_tm2_data,
                          namaste_by_code, namaste_by_id, tm2_by_code, tm2_by_id,
                          bio_by_code, bio_by_id, search_index>>
        \/ /\ t.pc = "bio"
           /\ Goes(i, "labelled",
                   [new_version |->
                      [version |-> VersionLabel(Len(versions)),
                       systems |-> <<"ICD11_TM2", "ICD11_BIO">>,
                       description |-> <<"W", "H", "O", " ", "A", "P", "I", " ", "S", "y", "n", "c", " ", "-", " ">> \o IntToStr(Len(icd11_tm2_data))
                                         \o <<" ", "T", "M", "2", ",", " ">> \o IntToStr(Len(icd11_bio_data))
                                         \o <<" ", "B", "i", "o", " ", "c", "o", "d", "e", "s">>]])
           /\ UNCHANGED store
        \/ /\ t.pc = "labelled"
           /\ versions' = Append(versions, t.new_version)
           /\ Goes(i, "appended", <<>>)
           /\ UNCHANGED <<who_api, namaste_data, icd11_tm2_data, icd11_bio_data,
                          namaste_by_code, namaste_by_id, tm2_by_code, tm2_by_id,
                          bio_by_code, bio_by_id, search_index>>
        \/ /\ t.pc = "appended"
           /\ namaste_data' = add_version_metadata_namaste(versions, namaste_data)
           /\ namaste_by_code' = [c \in DOMAIN namaste_by_code |->
                                    StampNamaste(versions, namaste_by_code[c])]
           /\ namaste_by_id' = [c \in DOMAIN namaste_by_id |->
                                  StampNamaste(versions, namaste_by_id[c])]
           /\ icd11_tm2_data' = add_version_metadata_icd(icd11_tm2_data)
           /\ icd11_bio_data' = add_version_metadata_icd(icd11_bio_data)
           /\ Goes(i, "rebuild", [k |-> 1])
           /\ UNCHANGED <<who_api, versions, tm2_by_code, tm2_by_id, bio_by_code,
                          bio_by_id, search_index>>

\* _rebuild_indexes(), one assignment at a time; a dict comprehension that
\* raises ends the handler in its except clause, the last assignment in the
\* success return
RebuildStep(i) ==
  LET t == tasks[i]
      k == t.k
      data == IF k \in {1, 2} THEN namaste_data
              ELSE IF k \in {3, 4} THEN icd11_tm2_data
              ELSE icd11_bio_data
      key == IF k \in {1, 3, 5} THEN "code" ELSE "id"
      error == IF t.op = "import_namaste_csv"
                 THEN [op |-> t.op, csv |-> t.csv, status |-> "error"]
                 ELSE [op |-> t.op, status |-> "error"]
      success == IF t.op = "import_namaste_csv"
                   THEN [op |-> t.op, csv |-> t.csv, status |-> "success",
                         imported_count |-> Len(t.new_data),
                         new_version |-> t.new_version.version]
                   ELSE [op |-> t.op, status |-> "success",
                         tm2_count |-> Len(icd11_tm2_data),
                         bio_count |-> Len(icd11_bio_data),
                         new_version |-> t.new_version.version]
  IN /\ t.op \in Mutations
     /\ t.pc = "rebuild"
     /\ IF k < 7 /\ ~Hashable(data, key)
          THEN /\ Returns(i, error)
               /\ UNCHANGED store
          ELSE /\ namaste_by_code' = IF k = 1 THEN DictBy(namaste_data, "code") ELSE namaste_by_code
               /\ namaste_by_id' = IF k = 2 THEN DictBy(namaste_data, "id") ELSE namaste_by_id
               /\ tm2_by_code' = IF k = 3 THEN DictBy(icd11_tm2_data, "code") ELSE tm2_by_code
               /\ tm2_by_id' = IF k = 4 THEN DictBy(icd11_tm2_data, "id") ELSE tm2_by_id
               /\ bio_by_code' = IF k = 5 THEN DictBy(icd11_bio_data, "code") ELSE bio_by_code
               /\ bio_by_id' = IF k = 6 THEN DictBy(icd11_bio_data, "id") ELSE bio_by_id
               /\ search_index' =
                    IF k = 7 THEN create_search_index(namaste_data, icd11_tm2_data,
                                                      icd11_bio_data)
                    ELSE search_index
               /\ IF k = 7 THEN Returns(i, success) ELSE Goes(i, "rebuild", [k |-> k + 1])
               /\ UNCHANGED <<who_api, versions, namaste_data, icd11_tm2_data,
                              icd11_bio_data>>

\* the requests of concurrent clients, served by the one event loop
NextLoop ==
  \/ \E i \in DOMAIN tasks, request \in LoopRequests : Receive(i, request)
  \/ \E i \in DOMAIN tasks : EventLoopRuns(i) /\ ReadStep(i)
  \/ \E i \in DOMAIN tasks : EventLoopRuns(i) /\ ImportStep(i)
  \/ \E i \in DOMAIN tasks : EventLoopRuns(i) /\ SyncStep(i)
  \/ \E i \in DOMAIN tasks : EventLoopRuns(i) /\ RebuildStep(i)

SpecLoop == Init /\ [][NextLoop]_vars

\* the lookup dicts and the search index are those of the present collections
Coherent ==
  /\ namaste_by_code = DictBy(namaste_data, "code")
  /\ namaste_by_id = DictBy(namaste_data, "id")
  /\ tm2_by_code = DictBy(icd11_tm2_data, "code")
  /\ tm2_by_id = DictBy(icd11_tm2_data, "id")
  /\ bio_by_code = DictBy(icd11_bio_data, "code")
  /\ bio_by_id = DictBy(icd11_bio_data, "id")
  /\ search_index = create_search_index(namaste_data, icd11_tm2_data, icd11_bio_data)

-----------------------------------------------------------------------------
(* app/services/search.py: SearchService.search and autocomplete behind a  *)
(* Redis cache.  The database of Redis is a function from keys to the      *)
(* cached JSON documents; a document is kept as the list it encodes.       *)

\* cache_key of search: query, system, patient_age, patient_gender and limit,
\* a field that is None printed as "None".  SystemStr is
\* f"{search_request.system}" of a CodeSystemType member (Python 3.11 and
\* later; earlier versions print the value, also one string per member).
cache_key(request) ==
  LET SystemStr(system) ==
        CASE system = NAMASTE -> <<"C", "o", "d", "e", "S", "y", "s", "t", "e", "m", "T", "y", "p", "e", ".", "N", "A", "M", "A", "S", "T", "E">>
          [] system = ICD11_TM2 -> <<"C", "o", "d", "e", "S", "y", "s", "t", "e", "m", "T", "y", "p", "e", ".", "I", "C", "D", "1", "1", "_", "T", "M", "2">>
          [] system = ICD11_BIO -> <<"C", "o", "d", "e", "S", "y", "s", "t", "e", "m", "T", "y", "p", "e", ".", "I", "C", "D", "1", "1", "_", "B", "I", "O">>
  IN
  Join(<< <<"s", "e", "a", "r", "c", "h">>,
          request.query,
          IF "system" \in DOMAIN request THEN SystemStr(request.system) ELSE <<"N", "o", "n", "e">>,
          IF "patient_age" \in DOMAIN request THEN IntToStr(request.patient_age) ELSE <<"N", "o", "n", "e">>,
          Get(request, "patient_gender", <<"N", "o", "n", "e">>),
          IntToStr(request.limit) >>, <<":">>)

\* the fields of SearchResult
ResultFields ==
  {"id", "code", "display", "definition", "system", "score", "mapping_confidence",
   "mapped_codes", "version"}

\* json.dumps([result.dict() for result in results]): every field is written,
\* as null when it is None and as its value otherwise
ToJson(results) ==
  [i \in 1..Len(results) |->
     [f \in ResultFields |->
        IF f \in DOMAIN results[i] THEN <<"value", results[i][f]>> ELSE <<"null">>]]

\* [SearchResult(**item) for item in json.loads(cached_result)]
FromJson(document) ==
  [i \in 1..Len(document) |->
     [f \in {g \in ResultFields : document[i][g][1] = "value"} |-> document[i][f][2]]]

\* search(search_request): the iteration order of the expanded queries as in
\* search_terms; get_fails and setex_fails say whether the call of Redis raises
\* RedisError.  A cached document is a non-empty str, so `if cached_result:`
\* holds whenever the key is found.
Search(request, order, get_fails, setex_fails) ==
  /\ ret = Idle
  /\ \E key \in {cache_key(request)} :
       IF redis_client.available /\ ~get_fails /\ key \in DOMAIN redis_client.data
         THEN /\ ret' = [op |-> "search", request |-> request, key |-> key,
                         cached |-> TRUE,
                         result |-> FromJson(redis_client.data[key])]
              /\ UNCHANGED <<redis_client, cached_from>>
         ELSE \E results \in {search_terms(request, order)} :
                /\ ret' = [op |-> "search", request |-> request, key |-> key,
                           cached |-> FALSE, result |-> results]
                /\ IF redis_client.available /\ ~setex_fails
                     THEN /\ redis_client' =
                               [redis_client EXCEPT
                                  !.data = (key :> ToJson(results)) @@ redis_client.data]
                          /\ cached_from' =
                               (key :> [request |-> request, versions |-> Len(versions)])
                                 @@ cached_from
                     ELSE UNCHANGED <<redis_client, cached_from>>
  /\ UNCHANGED <<store, tasks>>

\* cache_key of autocomplete: prefix, system and limit
autocomplete_key(prefix, system, limit) ==
  Join(<< <<"a", "u", "t", "o", "c", "o", "m", "p", "l", "e", "t", "e">>, prefix, IF system = None THEN <<"N", "o", "n", "e">> ELSE system,
          IntToStr(limit) >>, <<":">>)

\* the loop of autocomplete over search_index from row i on: the displays and
\* synonyms that start with the prefix, until limit * 2 are collected
RECURSIVE Suggestions(_, _, _, _, _)
Suggestions(i, prefix, system, limit, suggestions) ==
  IF i > Len(search_index) THEN suggestions
  ELSE LET item == search_index[i]
           value == CASE item.system = NAMASTE -> <<"n", "a", "m", "a", "s", "t", "e">>
                      [] item.system = ICD11_TM2 -> <<"i", "c", "d", "1", "1", "_", "t", "m", "2">>
                      [] item.system = ICD11_BIO -> <<"i", "c", "d", "1", "1", "_", "b", "i", "o">>
           synonyms == Get(item, "synonyms", <<>>)
           found ==
             (IF StartsWith(Lower(item.display), Lower(prefix))
                THEN <<item.display>> ELSE <<>>)
               \o SelectSeq(synonyms, LAMBDA syn : StartsWith(Lower(syn), Lower(prefix)))
       IN IF system # None /\ system # <<>> /\ value # system
            THEN Suggestions(i + 1, prefix, system, limit, suggestions)
          ELSE IF Len(suggestions \o found) >= limit * 2 THEN suggestions \o found
          ELSE Suggestions(i + 1, prefix, system, limit, suggestions \o found)

\* autocomplete(prefix, system, limit): the cached list when the key is found
\* (a cached document is a non-empty str), else the first limit elements of
\* list(set(suggestions)), whose order string hashing leaves open
Autocomplete(prefix, system, limit, get_fails, setex_fails) ==
  /\ ret = Idle
  /\ \E key \in {autocomplete_key(prefix, system, limit)} :
       IF redis_client.available /\ ~get_fails /\ key \in DOMAIN redis_client.data
         THEN /\ ret' = [op |-> "autocomplete", prefix |-> prefix, system |-> system,
                         limit |-> limit, key |-> key, cached |-> TRUE,
                         result |-> redis_client.data[key]]
              /\ UNCHANGED redis_client
         ELSE \E order \in Orderings(Range(Suggestions(1, prefix, system, limit, <<>>))) :
              \E unique_suggestions \in
                   {SubSeq(order, 1, IF Len(order) < limit THEN Len(order) ELSE limit)} :
                /\ ret' = [op |-> "autocomplete", prefix |-> prefix, system |-> system,
                           limit |-> limit, key |-> key, cached |-> FALSE,
                           result |-> unique_suggestions]
                /\ IF redis_client.available /\ ~setex_fails
                     THEN redis_client' =
                            [redis_client EXCEPT
                               !.data = (key :> unique_suggestions) @@ redis_client.data]
                     ELSE UNCHANGED redis_client
  /\ UNCHANGED <<store, tasks, cached_from>>

\* setex(cache_key, 3600, ...): the hour of a key has passed
Expire(key) ==
  /\ key \in DOMAIN redis_client.data
  /\ redis_client' =
       [redis_client EXCEPT
          !.data = [k \in DOMAIN redis_client.data \ {key} |-> redis_client.data[k]]]
  /\ cached_from' = [k \in DOMAIN cached_from \ {key} |-> cached_from[k]]
  /\ UNCHANGED <<store, ret, tasks>>

\* the requests of the clients
CacheRequests ==
  { [limit |-> limit] @@ request
    : limit \in 1..MaxLimit,
      request \in { [query |-> <<"d", "i", "a", "b", "e", "t", "e", "s">>],
                    [query |-> <<"d", "i", "a", "b", "e", "t", "e", "s">>, existing_conditions |-> <<<<"d", "i", "a", "b", "e", "t", "e", "s">>>>] } }

\* the prefix and the system filter of the autocomplete requests
AutocompleteInputs == [prefix : {<<"J">>}, system : {<<"n", "a", "m", "a", "s", "t", "e">>}, limit : {1}]

\* searches and completions through the cache while imports and syncs go on, until the version
\* list has MaxCacheVersions entries
NextCache ==
  \/ \E rows \in CsvFiles : Len(versions) < MaxCacheVersions /\ ImportNamasteCsv(rows)
  \/ \E t \in Tm2Responses, b \in BioResponses :
       Len(versions) < MaxCacheVersions /\ SyncWithWhoApi(t, b)
  \/ \E request \in CacheRequests, get_fails \in BOOLEAN, setex_fails \in BOOLEAN :
       \E order \in VariantOrders(map_abbreviations(request.query)) :
         Search(request, order, get_fails, setex_fails)
  \/ \E request \in AutocompleteInputs, get_fails \in BOOLEAN, setex_fails \in BOOLEAN :
       Autocomplete(request.prefix, request.system, request.limit, get_fails, setex_fails)
  \/ \E key \in DOMAIN redis_client.data : Expire(key)
  \/ Return

SpecCache == InitCache /\ [][NextCache]_vars


-----------------------------------------------------------------------------
(* Properties of search_terms, over SpecSearch.                            *)

\* C1: search_terms returns at most `limit` results, ordered by non-increasing
\* score, and no two returned results share an id.
C1_SearchBoundedSortedUnique ==
  ret.op = "search_terms" =>
    LET result == ret.result
    IN /\ Len(result) <= ret.request.limit
       /\ \A i \in 1..(Len(result) - 1) : QLe(result[i + 1].score, result[i].score)
       /\ \A i, j \in 1..Len(result) : i # j => result[i].id # result[j].id

\* A search that filled its limit with two results of different scores, when
\* the scans held a row id more than once and more ids than the limit.
C1_Witness ==
  /\ ret.op = "search_terms"
  /\ Len(ret.result) = ret.request.limit
  /\ Len(ret.result) >= 2
  /\ QLt(ret.result[2].score, ret.result[1].score)
  /\ \E order \in VariantOrders(map_abbreviations(ret.request.query)) :
       LET results == Collect(ScanAll(ret.request), order)
       IN /\ Len(Dedup(results)) < Len(results)
          /\ Len(Dedup(results)) > ret.request.limit

\* C2: the result kept for a row id carries the maximum of the boosted scores
\* that passed the threshold for that id across all the expanded queries,
\* whatever the order in which they were iterated.
C2_DedupKeepsMaxScore ==
  ret.op = "search_terms" =>
    LET scans == ScanAll(ret.request)
        found == UNION {Range(p[2]) : p \in scans}
        ScoresOf(id) == {r.score : r \in {f \in found : f.id = id}}
    IN \A i \in 1..Len(ret.result) :
         \A score \in ScoresOf(ret.result[i].id) : QLe(score, ret.result[i].score)

\* C3: when the normalized query is a case-insensitive substring of a row's
\* display or of one of its synonyms, the row passes the system filter and the
\* ids found fit within the limit, the row is returned with score 1.0.
C3_ExactMatchScoresOne ==
  ret.op = "search_terms" =>
    LET req == ret.request
        normalized == Lower(map_abbreviations(req.query))
        found == UNION {Range(p[2]) : p \in ScanAll(req)}
    IN Cardinality({f.id : f \in found}) <= req.limit =>
         \A k \in 1..Len(search_index) :
           (PassesFilter(search_index[k], req) /\ ExactMatch(normalized, search_index[k]))
             => \E i \in 1..Len(ret.result) :
                  /\ ret.result[i].id = search_index[k].id
                  /\ ret.result[i].score = Q(1, 1)

-----------------------------------------------------------------------------
(* Properties of translate_code, over Spec.                                *)

\* C4: translate_code follows the path table.  SOURCE->TM2 returns the record's
\* icd11_tm2_code with the stored mapping_confidence (0.8 when none is stored),
\* SOURCE->BIO its icd11_bio_code with the stored confidence x 0.9, TM2->BIO
\* its icd11_bio_code with confidence 0.85; a source system BIO, and a pair of
\* systems outside the table, returns None.
C4_PathTable ==
  ret.op = "translate_code" =>
    LET s == ret.source_system
        t == ret.target_system
        source_item == get_code_details(ret.code, s)
        stored == Get(source_item, "mapping_confidence", Q(8, 10))
        tm2 == Get(source_item, "icd11_tm2_code", <<>>)
        bio == Get(source_item, "icd11_bio_code", <<>>)
        Answers(target_code, confidence) ==
          /\ ret.result # None
          /\ ret.result.target_code = target_code
          /\ ret.result.confidence = confidence
    IN /\ s = ICD11_BIO => ret.result = None
       /\ <<s, t>> \notin {<<NAMASTE, ICD11_TM2>>, <<NAMASTE, ICD11_BIO>>,
                           <<ICD11_TM2, ICD11_BIO>>, <<ICD11_TM2, NAMASTE>>}
            => ret.result = None
       /\ (s = NAMASTE /\ t = ICD11_TM2 /\ source_item # None /\ tm2 # <<>>)
            => Answers(tm2, stored)
       /\ (s = NAMASTE /\ t = ICD11_BIO /\ source_item # None /\ bio # <<>>)
            => Answers(bio, QMul(stored, Q(9, 10)))
       /\ (s = ICD11_TM2 /\ t = ICD11_BIO /\ source_item # None /\ bio # <<>>)
            => Answers(bio, Q(85, 100))

\* A TM2 record translated to BIO, answered with confidence 0.85.
C4_Witness ==
  /\ ret.op = "translate_code"
  /\ ret.source_system = ICD11_TM2
  /\ ret.target_system = ICD11_BIO
  /\ ret.result # None
  /\ ret.result.confidence = Q(85, 100)

\* C5 as stated: for every SOURCE record r with a non-empty icd11_tm2_code X,
\* translating r.code to TM2 gives X, and translating X back to SOURCE gives
\* r.code with confidence r.mapping_confidence x 0.9.
C5_RoundTrip ==
  \A i \in 1..Len(namaste_data) :
    LET r == namaste_data[i]
        X == Get(r, "icd11_tm2_code", <<>>)
        there == translate_code(r.code, NAMASTE, ICD11_TM2)
        back == translate_code(X, ICD11_TM2, NAMASTE)
    IN X # <<>> =>
         /\ there # None
         /\ there.target_code = X
         /\ back # None
         /\ back.target_code = r.code
         /\ back.confidence = QMul(Get(r, "mapping_confidence", Q(8, 10)), Q(9, 10))

\* C5 amended: for every SOURCE record r with a non-empty icd11_tm2_code X that
\* is the record its own code resolves to, translating r.code to TM2 gives X;
\* and when X resolves to a TM2 record, r has a non-empty code and no earlier
\* SOURCE record has the icd11_tm2_code X, translating X back to SOURCE gives
\* r.code with confidence r.mapping_confidence x 0.9.
C5_RoundTripFirstMatch ==
  \A i \in 1..Len(namaste_data) :
    LET r == namaste_data[i]
        X == Get(r, "icd11_tm2_code", <<>>)
        there == translate_code(r.code, NAMASTE, ICD11_TM2)
        back == translate_code(X, ICD11_TM2, NAMASTE)
    IN (X # <<>> /\ get_code_details(r.code, NAMASTE) = r) =>
         /\ there # None
         /\ there.target_code = X
         /\ (/\ get_code_details(X, ICD11_TM2) # None
             /\ r.code # <<>>
             /\ \A j \in 1..(i - 1) : Get(namaste_data[j], "icd11_tm2_code", <<>>) # X)
              => /\ back # None
                 /\ back.target_code = r.code
                 /\ back.confidence =
                      QMul(Get(r, "mapping_confidence", Q(8, 10)), Q(9, 10))

\* A TM2 code translated back to the first of two SOURCE records mapped to it,
\* which is the record its own code resolves to.
C5_Witness ==
  /\ ret.op = "translate_code"
  /\ ret.source_system = ICD11_TM2
  /\ ret.target_system = NAMASTE
  /\ ret.result # None
  /\ Cardinality(ReverseMatches(ret.code)) >= 2
  /\ LET r == namaste_data[FirstReverseMatch(ret.code)]
     IN /\ get_code_details(r.code, NAMASTE) = r
        /\ ret.result.target_code = r.code
        /\ ret.result.confidence = QMul(r.mapping_confidence, Q(9, 10))

\* the answer of the translate_code call held in ret is None in the three cases
\* of C6
C6_NotFoundCases ==
  ret.op = "translate_code" =>
    LET s == ret.source_system
        t == ret.target_system
        by_code == IF s = NAMASTE THEN namaste_by_code
                   ELSE IF s = ICD11_TM2 THEN tm2_by_code ELSE bio_by_code
        by_id == IF s = NAMASTE THEN namaste_by_id
                 ELSE IF s = ICD11_TM2 THEN tm2_by_id ELSE bio_by_id
        source_item == get_code_details(ret.code, s)
        field == IF t = ICD11_TM2 THEN "icd11_tm2_code" ELSE "icd11_bio_code"
    IN /\ (ret.code \notin DOMAIN by_code /\ ret.code \notin DOMAIN by_id)
            => ret.result = None
       /\ (/\ source_item # None
           /\ <<s, t>> \in {<<NAMASTE, ICD11_TM2>>, <<NAMASTE, ICD11_BIO>>,
                            <<ICD11_TM2, ICD11_BIO>>}
           /\ Get(source_item, field, <<>>) = <<>>)
            => ret.result = None
       /\ (/\ s = ICD11_TM2
           /\ t = NAMASTE
           /\ \A i \in 1..Len(namaste_data) :
                Get(namaste_data[i], "icd11_tm2_code", <<>>) # ret.code)
            => ret.result = None

\* C6: translate_code returns None when the code matches no record of the
\* source system by code or by id, when the mapping field of the requested path
\* is empty, and when the reverse scan finds no SOURCE record mapped to the
\* code; and no call of translate_code changes the store.
C6_NotFoundLeavesStore ==
  /\ []C6_NotFoundCases
  /\ [][ret'.op = "translate_code" => UNCHANGED store]_vars

\* A TM2 record found, of which the reverse scan finds no SOURCE record.
C6_Witness ==
  /\ ret.op = "translate_code"
  /\ ret.source_system = ICD11_TM2
  /\ ret.target_system = NAMASTE
  /\ get_code_details(ret.code, ICD11_TM2) # None
  /\ ReverseMatches(ret.code) = {}
  /\ ret.result = None

\* C7 as stated: translating a SOURCE or TM2 record whose mapping field names a
\* code that no record of the target system's collection has returns None.
C7_DanglingIsNotFound ==
  ret.op = "translate_code" =>
    LET s == ret.source_system
        t == ret.target_system
        source_item == get_code_details(ret.code, s)
        field == IF t = ICD11_TM2 THEN "icd11_tm2_code" ELSE "icd11_bio_code"
        target_data == IF t = ICD11_TM2 THEN icd11_tm2_data ELSE icd11_bio_data
        pointer == Get(source_item, field, <<>>)
    IN (/\ source_item # None
        /\ <<s, t>> \in {<<NAMASTE, ICD11_TM2>>, <<NAMASTE, ICD11_BIO>>,
                         <<ICD11_TM2, ICD11_BIO>>}
        /\ pointer # <<>>
        /\ \A i \in 1..Len(target_data) : target_data[i].code # pointer)
         => ret.result = None

\* C7 amended: translating a SOURCE or TM2 record whose mapping field names a
\* code that no record of the target system's collection has returns a
\* translation to that code, with the confidence of the path.  Its
\* target_display is empty when the lookup map of the target system has no
\* entry for the code, and else the display of the entry the map still holds
\* (an entry of the collection that a failed sync has replaced).
C7_DanglingPointerReturned ==
  ret.op = "translate_code" =>
    LET s == ret.source_system
        t == ret.target_system
        source_item == get_code_details(ret.code, s)
        field == IF t = ICD11_TM2 THEN "icd11_tm2_code" ELSE "icd11_bio_code"
        target_data == IF t = ICD11_TM2 THEN icd11_tm2_data ELSE icd11_bio_data
        target_by_code == IF t = ICD11_TM2 THEN tm2_by_code ELSE bio_by_code
        pointer == Get(source_item, field, <<>>)
    IN (/\ source_item # None
        /\ <<s, t>> \in {<<NAMASTE, ICD11_TM2>>, <<NAMASTE, ICD11_BIO>>,
                         <<ICD11_TM2, ICD11_BIO>>}
        /\ pointer # <<>>
        /\ \A i \in 1..Len(target_data) : target_data[i].code # pointer)
         => /\ ret.result # None
            /\ ret.result.target_code = pointer
            /\ ret.result.target_display =
                 IF pointer \in DOMAIN target_by_code
                   THEN Get(target_by_code[pointer], "display", <<>>)
                   ELSE <<>>
            /\ ret.result.confidence =
                 IF t = ICD11_TM2 THEN Get(source_item, "mapping_confidence", Q(8, 10))
                 ELSE IF s = NAMASTE
                   THEN QMul(Get(source_item, "mapping_confidence", Q(8, 10)), Q(9, 10))
                 ELSE Q(85, 100)

\* The imported record AY002 translated to TM2: its pointer TM26.9 names no TM2
\* record and comes back as the target code, without a display.
C7_Witness ==
  /\ ret.op = "translate_code"
  /\ ret.source_system = NAMASTE
  /\ ret.target_system = ICD11_TM2
  /\ ret.result # None
  /\ ret.result.target_code = <<"T", "M", "2", "6", ".", "9">>
  /\ \A i \in 1..Len(icd11_tm2_data) : icd11_tm2_data[i].code # <<"T", "M", "2", "6", ".", "9">>
  /\ ret.result.target_display = <<>>

-----------------------------------------------------------------------------
(* Properties of the versioned store, over Spec.                           *)

\* C8: an import_namaste_csv that returns status success makes the list of
\* get_terminology_versions() longer by exactly one, and right after it
\* get_code_details(code, SOURCE), the lookup in the SOURCE maps, returns for
\* every code of the batch a record imported by this batch under that code.
C8_ImportFindable ==
  [][(ret'.op = "import_namaste_csv" /\ ret'.status = "success") =>
       /\ Len(get_terminology_versions') = Len(get_terminology_versions) + 1
       /\ \A i \in 1..Len(ret'.csv) :
            \E j \in 1..Len(ret'.csv) :
              /\ ret'.csv[j].code = ret'.csv[i].code
              /\ Lookup(namaste_by_code', namaste_by_id', ret'.csv[i].code) =
                   Update(ParseRow(ret'.csv[j]),
                          [version |-> versions'[Len(versions')].version])]_vars

\* A successful import of a batch that holds the baseline's code AY001: the
\* code now resolves to the imported record.
C8_Witness ==
  /\ ret.op = "import_namaste_csv"
  /\ ret.status = "success"
  /\ \E i \in 1..Len(ret.csv) : ret.csv[i].code = <<"A", "Y", "0", "0", "1">>
  /\ get_code_details(<<"A", "Y", "0", "0", "1">>, NAMASTE).id = <<"N", "A", "M", "A", "S", "T", "E", "_", "A", "Y", "0", "0", "1">>
  /\ get_code_details(<<"A", "Y", "0", "0", "1">>, NAMASTE).version = ret.new_version

\* the version list is non-empty, its labels are 1.0.0, 1.0.1, 1.0.2, ... in
\* list order, pairwise distinct, and the current version is its last element
C9_VersionsWellFormed ==
  /\ Len(versions) >= 1
  /\ \A i \in 1..Len(versions) : versions[i].version = <<"1", ".", "0", ".">> \o IntToStr(i - 1)
  /\ \A i, j \in 1..Len(versions) :
       i < j => /\ versions[i].version # versions[j].version
                /\ DecVal(SubSeq(versions[i].version, 5, Len(versions[i].version)))
                     < DecVal(SubSeq(versions[j].version, 5, Len(versions[j].version)))
  /\ get_target_version(NAMASTE) = versions[Len(versions)].version

\* C9: in every reachable state the version list is non-empty, its labels are
\* pairwise distinct and strictly increasing in list order (1.0.0, 1.0.1, ...)
\* and the current version is the last element; and the list only ever changes
\* by the append of one element.
C9_VersionsAppendOnly ==
  /\ []C9_VersionsWellFormed
  /\ [][\/ versions' = versions
        \/ /\ Len(versions') = Len(versions) + 1
           /\ SubSeq(versions', 1, Len(versions)) = versions]_vars

\* A version list that an import and a sync have each extended.
C9_Witness ==
  /\ Len(versions) >= 3
  /\ \E i, j \in 2..Len(versions) :
       /\ versions[i].systems = <<"NAMASTE">>
       /\ versions[j].systems = <<"ICD11_TM2", "ICD11_BIO">>

\* C10: an import or sync that returns status error records no version and
\* leaves the version list, the three collections, the lookup maps and the
\* search index as they were before the call.
C10_AllOrNothing ==
  [][(ret'.op \in {"import_namaste_csv", "sync_with_who_api"} /\ ret'.status = "error")
       => UNCHANGED store]_vars

-----------------------------------------------------------------------------
(* Properties of sync_with_who_api and import_namaste_csv, over Spec.      *)

\* C11: a sync during which the chapter request and every entity request of
\* the WHO client fail leaves the TM2 collection, the BIO collection and the
\* version list as they were before the sync.
C11_FailedFetchKeepsDataset ==
  [][\A t \in Tm2Responses :
       (who_api /\ IsEmptyResponse(t) /\ SyncWithWhoApi(t, BioAllFailed))
         => UNCHANGED <<icd11_tm2_data, icd11_bio_data, versions>>]_vars

\* C12: an import leaves every SOURCE lookup as it was: a code or id that
\* get_code_details and translate_code resolved to a SOURCE record before the
\* import resolves to the same record after it.
C12_ImportKeepsResolution ==
  [][ret'.op = "import_namaste_csv"
       => \A code \in CodeInputs :
            Lookup(namaste_by_code, namaste_by_id, code) # None
              => Lookup(namaste_by_code', namaste_by_id', code)
                   = Lookup(namaste_by_code, namaste_by_id, code)]_vars

\* C13: in every reachable state no two records of one collection (SOURCE, TM2
\* or BIO) have the same code, and no two have the same id.
C13_CodeAndIdUnique ==
  \A data \in {namaste_data, icd11_tm2_data, icd11_bio_data} :
    \A i, j \in 1..Len(data) :
      i # j => data[i].code # data[j].code /\ data[i].id # data[j].id

\* C16: a TM2 -> SOURCE translation answers with the first SOURCE record, in
\* the order of namaste_data, whose icd11_tm2_code is the given code, and an
\* import leaves the target code and the confidence of every such translation
\* as they were.
C16_FirstMatchStable ==
  /\ [](ret.op = "translate_code" /\ ret.source_system = ICD11_TM2
          /\ ret.target_system = NAMASTE /\ ret.result # None
        => \E i \in 1..Len(namaste_data) :
             /\ Get(namaste_data[i], "icd11_tm2_code", <<>>) = ret.code
             /\ \A j \in 1..(i - 1) : Get(namaste_data[j], "icd11_tm2_code", <<>>) # ret.code
             /\ ret.result.target_code = namaste_data[i].code
             /\ ret.result.confidence
                  = QMul(Get(namaste_data[i], "mapping_confidence", Q(8, 10)), Q(9, 10)))
  /\ [][ret'.op = "import_namaste_csv"
         => \A code \in CodeInputs :
              translate_code(code, ICD11_TM2, NAMASTE) # None
                => /\ translate_code(code, ICD11_TM2, NAMASTE)' # None
                   /\ translate_code(code, ICD11_TM2, NAMASTE)'.target_code
                        = translate_code(code, ICD11_TM2, NAMASTE).target_code
                   /\ translate_code(code, ICD11_TM2, NAMASTE)'.confidence
                        = translate_code(code, ICD11_TM2, NAMASTE).confidence]_vars

\* A TM2 -> SOURCE translation answered after an import has appended further
\* records mapped to the same TM2 code.
C16_Witness ==
  /\ ret.op = "translate_code"
  /\ ret.source_system = ICD11_TM2 /\ ret.target_system = NAMASTE
  /\ ret.result # None
  /\ \E i, j \in ReverseMatches(ret.code) :
       /\ i < j
       /\ namaste_data[i].version # namaste_data[j].version

\* C17: a record that its own code resolves to can be addressed by its id as
\* well: when no record of the source system has a code equal to that id,
\* translate_code answers the id with the target code and the confidence (or
\* the None) that it gives for the record's code, on every path, TM2 -> SOURCE
\* included.
C17_IdEquivalentToCode ==
  ret.op = "translate_code" =>
    LET s == ret.source_system
        by_code == IF s = NAMASTE THEN namaste_by_code
                   ELSE IF s = ICD11_TM2 THEN tm2_by_code ELSE bio_by_code
        by_id == IF s = NAMASTE THEN namaste_by_id
                 ELSE IF s = ICD11_TM2 THEN tm2_by_id ELSE bio_by_id
    IN (ret.code \in DOMAIN by_id \ DOMAIN by_code) =>
         LET r == by_id[ret.code]
             by_the_code == translate_code(r.code, s, ret.target_system)
         IN (r.code \in DOMAIN by_code /\ by_code[r.code] = r)
              => IF by_the_code = None THEN ret.result = None
                 ELSE /\ ret.result # None
                      /\ ret.result.target_code = by_the_code.target_code
                      /\ ret.result.confidence = by_the_code.confidence

-----------------------------------------------------------------------------
(* Properties of concurrent requests, over SpecLoop.                       *)

\* C14: a get_code_details or translate_code that is in flight together with
\* imports and syncs runs on a store of one generation: the lookup dicts and
\* the search index it reads are those of the collections of that moment,
\* never older ones and never a partly rebuilt set.
C14_ReadersSeeOneGeneration ==
  [][(\E i \in DOMAIN tasks :
        /\ tasks[i].op \in {"get_code_details", "translate_code"}
        /\ tasks'[i] = Free)
       => Coherent]_vars

\* C15: at most one import or sync is between the start and the return of its
\* handler at any time, the labels of the version list are pairwise distinct,
\* and an import or sync that returns success leaves lookup dicts and a search
\* index that are those of the collections, whatever other requests were in
\* flight with it.
C15_MutationsSerialized ==
  /\ [](/\ Cardinality({i \in DOMAIN tasks :
                          tasks[i].op \in Mutations /\ InHandler(tasks[i])}) <= 1
        /\ \A i, j \in 1..Len(versions) :
             i # j => versions[i].version # versions[j].version)
  /\ [][(\E i \in DOMAIN tasks :
           /\ tasks[i].op \in Mutations
           /\ tasks'[i] = Free
           /\ ret'.status = "success")
          => Coherent']_vars

\* An import that has appended its version and is rebuilding the indexes
\* while a sync and then nothing else waits for the loop.
C15_Witness ==
  \E i, j \in DOMAIN tasks :
    /\ tasks[i].op = "import_namaste_csv" /\ tasks[i].pc = "rebuild"
    /\ tasks[j].op = "sync_with_who_api" /\ tasks[j].pc = "ready"
    /\ Len(versions) = 2

-----------------------------------------------------------------------------
(* Properties of the search, over SpecSearch.                              *)

\* C18: the expansion of the query "fever" that a search iterates over holds
\* "jwara", "pyrexia" and "fever" itself.
C18_FeverExpands ==
  (ret.op = "search_terms" /\ map_abbreviations(ret.request.query) = <<"f", "e", "v", "e", "r">>)
    => {<<"j", "w", "a", "r", "a">>, <<"p", "y", "r", "e", "x", "i", "a">>, <<"f", "e", "v", "e", "r">>}
         \subseteq expand_synonyms(map_abbreviations(ret.request.query))

\* C19 as stated: for the query "diabetes", every row whose search text holds
\* "diabetes" scores strictly higher with existing_conditions ["diabetes"] than
\* without a context, and at most 1.0.
C19_BoostStrictlyRaises ==
  (/\ ret.op = "search_terms"
   /\ ret.request.query = <<"d", "i", "a", "b", "e", "t", "e", "s">>
   /\ DOMAIN ret.request = {"query", "limit", "existing_conditions"}
   /\ ret.request.existing_conditions = <<<<"d", "i", "a", "b", "e", "t", "e", "s">>>>)
    => \A k \in 1..Len(search_index) :
         Contains(<<"d", "i", "a", "b", "e", "t", "e", "s">>, Lower(search_index[k].search_text))
           => LET without == BoostedScore(<<"d", "i", "a", "b", "e", "t", "e", "s">>, search_index[k],
                                          [query |-> <<"d", "i", "a", "b", "e", "t", "e", "s">>, limit |-> ret.request.limit])
                  with == BoostedScore(<<"d", "i", "a", "b", "e", "t", "e", "s">>, search_index[k], ret.request)
              IN QLt(without, with) /\ QLe(with, Q(1, 1))

\* C19: for the query "diabetes", a row whose search text holds "diabetes"
\* scores, with existing_conditions ["diabetes"], three times its score without
\* a context, capped at 1.0, and is returned with that score: strictly more
\* when the score without a context is below 1.0, the same 1.0 when the row
\* is an exact match.
C19_BoostTriplesUpToCap ==
  (/\ ret.op = "search_terms"
   /\ ret.request.query = <<"d", "i", "a", "b", "e", "t", "e", "s">>
   /\ DOMAIN ret.request = {"query", "limit", "existing_conditions"}
   /\ ret.request.existing_conditions = <<<<"d", "i", "a", "b", "e", "t", "e", "s">>>>)
    => \A k \in 1..Len(search_index) :
         Contains(<<"d", "i", "a", "b", "e", "t", "e", "s">>, Lower(search_index[k].search_text))
           => LET without == BoostedScore(<<"d", "i", "a", "b", "e", "t", "e", "s">>, search_index[k],
                                          [query |-> <<"d", "i", "a", "b", "e", "t", "e", "s">>, limit |-> ret.request.limit])
                  with == BoostedScore(<<"d", "i", "a", "b", "e", "t", "e", "s">>, search_index[k], ret.request)
              IN /\ with = QMin(QMul(without, Q(3, 1)), Q(1, 1))
                 /\ QLt(Q(0, 1), without) /\ QLt(without, Q(1, 1)) => QLt(without, with)
                 /\ without = Q(1, 1) => with = Q(1, 1)
                 /\ \A i \in 1..Len(ret.result) :
                      ret.result[i].id = search_index[k].id => ret.result[i].score = with

\* A search for "diabetes" with the condition that returns a row lifted from
\* below 1.0 to 1.0, on a store that also holds an exact match.
C19_Witness ==
  /\ ret.op = "search_terms"
  /\ ret.request.query = <<"d", "i", "a", "b", "e", "t", "e", "s">>
  /\ DOMAIN ret.request = {"query", "limit", "existing_conditions"}
  /\ ret.request.existing_conditions = <<<<"d", "i", "a", "b", "e", "t", "e", "s">>>>
  /\ \E k \in 1..Len(search_index), i \in 1..Len(ret.result) :
       /\ Contains(<<"d", "i", "a", "b", "e", "t", "e", "s">>, Lower(search_index[k].search_text))
       /\ ret.result[i].id = search_index[k].id
       /\ QLt(BaseScore(<<"d", "i", "a", "b", "e", "t", "e", "s">>, search_index[k]), Q(1, 1))
       /\ ret.result[i].score = Q(1, 1)
  /\ \E k \in 1..Len(search_index) : ExactMatch(<<"d", "i", "a", "b", "e", "t", "e", "s">>, search_index[k])

\* C20: every result of a search has a score above 0.3 and at most 1.0, and
\* that score is the boosted score (the product of the base score and the
\* boost factors, capped at 1.0) of its row for one of the expanded queries,
\* whatever context is supplied.
C20_ScoreWithinBounds ==
  ret.op = "search_terms" =>
    \A i \in 1..Len(ret.result) :
      /\ QLt(Threshold, ret.result[i].score)
      /\ QLe(ret.result[i].score, Q(1, 1))
      /\ \E v \in expand_synonyms(map_abbreviations(ret.request.query)),
            k \in 1..Len(search_index) :
           /\ search_index[k].id = ret.result[i].id
           /\ ret.result[i].score
                = apply_context_boosting(BaseScore(v, search_index[k]),
                                         search_index[k], ret.request)

\* A search with age, gender, conditions and symptoms that returns, at 1.0, an
\* exact match whose condition and symptom factors multiply to 6.
C20_Witness ==
  /\ ret.op = "search_terms"
  /\ {"patient_age", "patient_gender", "existing_conditions", "symptoms"}
       \subseteq DOMAIN ret.request
  /\ \E i \in 1..Len(ret.result), k \in 1..Len(search_index),
        v \in expand_synonyms(map_abbreviations(ret.request.query)) :
       /\ search_index[k].id = ret.result[i].id
       /\ BaseScore(v, search_index[k]) = Q(1, 1)
       /\ ConditionsBoost(Q(1, 1), search_index[k], Lower(search_index[k].search_text),
                          ret.request.existing_conditions) = Q(3, 1)
       /\ SymptomsFactor(Lower(search_index[k].search_text), ret.request) = Q(2, 1)
       /\ ret.result[i].score = Q(1, 1)


-----------------------------------------------------------------------------
(* Properties of the translation and of the store, over Spec.              *)

\* C21: every confidence that translate_code returns lies in [0, 1].
C21_ConfidenceInUnitInterval ==
  (ret.op = "translate_code" /\ ret.result # None)
    => /\ QLe(Q(0, 1), ret.result.confidence)
       /\ QLe(ret.result.confidence, Q(1, 1))

\* C23: a SOURCE record that carries the version label minted by an import
\* carries the same label after every later step; a sync in particular leaves
\* the version of every such record unchanged.
C23_ImportStampKept ==
  [][\A i \in 1..Len(namaste_data) :
       (\E k \in 2..Len(versions) :
          /\ versions[k].systems = <<"NAMASTE">>
          /\ namaste_data[i].version = versions[k].version)
         => /\ i <= Len(namaste_data')
            /\ namaste_data'[i].version = namaste_data[i].version]_vars

\* C22: after construction and after every import or sync that has returned,
\* search_index holds one row per record of the three collections, SOURCE rows
\* first, then TM2, then BIO, each in collection order, and the six lookup
\* maps and the index are those derived from the collections as they are now.
C22_IndexDescribesCollections ==
  ret.op \in {"idle", "import_namaste_csv", "sync_with_who_api"} =>
    LET records == namaste_data \o icd11_tm2_data \o icd11_bio_data
    IN /\ Len(search_index) = Len(records)
       /\ \A i \in 1..Len(records) :
            /\ search_index[i].id = records[i].id
            /\ search_index[i].code = records[i].code
       /\ Coherent

-----------------------------------------------------------------------------
(* Properties of the ranking, over SpecSearch.                             *)

\* C24: two results of a search that have the same score are returned in the
\* order of their rows in the index, whatever the order in which the expanded
\* queries were iterated.
C24_TiesInIndexOrder ==
  ret.op = "search_terms" =>
    \A i, j \in 1..Len(ret.result) :
      (i < j /\ ret.result[i].score = ret.result[j].score)
        => \E k \in 1..Len(search_index) :
             /\ search_index[k].id = ret.result[i].id
             /\ \A m \in 1..Len(search_index) :
                  search_index[m].id = ret.result[j].id => k < m

\* C25: in a search with existing conditions, a row whose search text contains
\* a condition together with a complication marker takes the factor 4.0 for
\* that condition, and every condition contributes one of 1, 2.5, 3.0 and 4.0.
C25_ComplicationTakesFour ==
  (ret.op = "search_terms" /\ "existing_conditions" \in DOMAIN ret.request) =>
    \A k \in 1..Len(search_index), c \in 1..Len(ret.request.existing_conditions) :
      LET item == search_index[k]
          text == Lower(item.search_text)
          condition == ret.request.existing_conditions[c]
          factor == ConditionFactor(item, text, condition)
      IN /\ factor \in {Q(1, 1), Q(5, 2), Q(3, 1), Q(4, 1)}
         /\ (Contains(Lower(condition), text) /\ AnyTermIn(complication_keywords, text))
              => factor = Q(4, 1)

\* C26: in a search with a patient age, a row whose search text holds a
\* pediatric marker takes the age factor 2.5 when the age is below 18, age 0
\* included, a row that holds a geriatric marker takes it when the age is above
\* 65, and no row takes an age factor other than 1 and 2.5.
C26_AgeFactorApplied ==
  (ret.op = "search_terms" /\ "patient_age" \in DOMAIN ret.request) =>
    \A k \in 1..Len(search_index) :
      LET text == Lower(search_index[k].search_text)
          age == ret.request.patient_age
          factor == AgeFactor(text, ret.request)
      IN /\ factor \in {Q(1, 1), Q(5, 2)}
         /\ (age < 18 /\ AnyTermIn(pediatric_terms, text)) => factor = Q(5, 2)
         /\ (age > 65 /\ AnyTermIn(geriatric_terms, text)) => factor = Q(5, 2)

\* C27: a result of a search carries mapped_codes only when its row is a SOURCE
\* row with a mapped TM2 or BIO code that is not empty, and it carries
\* mapping_confidence, equal to 0.9, exactly when it carries mapped_codes.
C27_MappedCodesOnSourceOnly ==
  ret.op = "search_terms" =>
    \A i \in 1..Len(ret.result) :
      LET r == ret.result[i]
      IN /\ "mapped_codes" \in DOMAIN r
              => /\ r.system = NAMASTE
                 /\ \E k \in 1..Len(search_index) :
                      /\ search_index[k].id = r.id
                      /\ \/ search_index[k].mapped_tm2 # <<>>
                         \/ search_index[k].mapped_bio # <<>>
         /\ "mapping_confidence" \in DOMAIN r <=> "mapped_codes" \in DOMAIN r
         /\ "mapping_confidence" \in DOMAIN r => r.mapping_confidence = Q(9, 10)

-----------------------------------------------------------------------------
(* Properties of sync_with_who_api without a client, over Spec.            *)

\* C28: sync_with_who_api can be called whenever the service is idle and always
\* returns a result with a status; on a service without a client the status is
\* error and the version list, the three collections, the lookup maps and the
\* search index are left as they were.
C28_SyncWithoutClientIsError ==
  /\ [](ret = Idle => ENABLED SyncWithWhoApi(EmptyResponse, BioAllFailed))
  /\ [][(ret = Idle /\ ret'.op = "sync_with_who_api")
          => /\ ret'.status \in {"success", "error"}
             /\ ~who_api => (ret'.status = "error" /\ UNCHANGED store)]_vars

\* A sync on a service without a client has returned its error.
C28_Witness ==
  /\ ~who_api
  /\ ret.op = "sync_with_who_api"
  /\ ret.status = "error"

-----------------------------------------------------------------------------
(* Properties of SearchService.search, over SpecCache.                     *)

\* C29: a search through SearchService that is answered with the document
\* cached for the same request returns a result of search_terms for that
\* request on the index as it is now, whatever imports and syncs have
\* completed since the document was stored.
C29_NoStaleResultAfterMutation ==
  [][(/\ ret = Idle
      /\ ret'.op = "search"
      /\ ret'.cached
      /\ cached_from[ret'.key].request = ret'.request)
       => \E order \in VariantOrders(map_abbreviations(ret'.request.query)) :
            ret'.result = search_terms(ret'.request, order)]_vars

\* C30: with no import or sync since the cached document was stored, a search
\* through SearchService returns what search_terms returns for the full
\* parameters of the request, existing_conditions and symptoms included.
C30_CachedEqualsFresh ==
  [][(/\ ret = Idle
      /\ ret'.op = "search"
      /\ ret'.cached
      /\ cached_from[ret'.key].versions = Len(versions))
       => \E order \in VariantOrders(map_abbreviations(ret'.request.query)) :
            ret'.result = search_terms(ret'.request, order)]_vars
====
